---- MODULE Spec2Model ----
(***************************************************************************)
(* Model of the session / search / transaction / error core of the ORM.    *)
(*                                                                         *)
(* Sessions (repository objects) and the backing arrays of Go slices live  *)
(* in heaps.  A session is named by the path of calls that produced it     *)
(* from the root session returned by Open (the root is the empty path).    *)
(* A slice is a (backing array, len, cap) header; append is modelled with  *)
(* the semantics of the Go builtin: it writes in place into the shared     *)
(* backing array while len < cap and reallocates otherwise.                *)
(***************************************************************************)
EXTENDS Integers, Sequences, FiniteSets, TLC

VARIABLES
    sessions,   \* heap of repository objects, by the path of calls from the root
    arrays,     \* heap of backing arrays of the Search slices
    searches,   \* Search objects used on their own (not through a session)
    txs,        \* the transactions the executor has started
    proc,       \* the running Transaction(fn) call
    log,        \* what the logger was handed
    added,      \* per session, the errors handed to AddError so far
    modelStructsMap, \* the process-wide cache of table descriptors, by type
    handles,    \* the registries Callback() has returned, in call order
    model,      \* a Model value: its Extra map and its ExtraJson column
    setterCalls, \* the number of calls of the plain setters made so far
    pending,    \* the FirstOrCreate or Save call that is between two pipelines
    lastCall    \* the last in-place call and what it did on the executor

vars == <<sessions, arrays, searches, txs, proc, log, added, modelStructsMap,
          handles, model, setterCalls, pending, lastCall>>

\* ------------------------------------------------------------------ bounds
MaxSessions == 6
MaxChainSessions == 4
MaxSearches == 2
MaxLen == 4
MaxArrays == 4
MaxAdds == 4
MaxTxSessions == 3
MaxLog == 3

\* ------------------------------------------------------------- Go values
\* An interface{} value: tagged so that values of different dynamic types
\* stay distinct (int 1 is not string "1", nil is not "").
IntV(n) == [t |-> "int", i |-> n, s |-> "", a |-> <<>>]
StrV(x) == [t |-> "string", i |-> 0, s |-> x, a |-> <<>>]
NilV == [t |-> "nil", i |-> 0, s |-> "", a |-> <<>>]
BoolV(b) == [t |-> "bool", i |-> IF b THEN 1 ELSE 0, s |-> "", a |-> <<>>]
\* *Expression{expr, args}
ExprV(x, args) == [t |-> "expr", i |-> 0, s |-> x, a |-> args]

\* map[string]interface{}{"query": query, "args": values}
Cond(query, values) == [query |-> query, args |-> values]

\* the zero value of a slot of a backing array that was never written
ZeroElem == Cond(NilV, <<>>)

\* args ...interface{}
ListV(args) == [t |-> "slice", i |-> 0, s |-> "", a |-> args]

\* ------------------------------------------------------------ Go slices
NoArr == <<>>
NilSlice == [arr |-> NoArr, len |-> 0, cap |-> 0]

\* the elements a slice header observes: backing[0:len]
Elems(sl, arrs) == [i \in 1..sl.len |-> arrs[sl.arr][i]]

\* capacity chosen by append when the backing array is full (runtime
\* growslice for short slices: the needed size if it exceeds twice the old
\* capacity, else twice the old capacity)
GrowCap(oldcap, needed) == IF needed > 2 * oldcap THEN needed ELSE 2 * oldcap

\* append(sl, e): in place when there is room, else a fresh array `newid`
GoAppend(sl, e, arrs, newid) ==
    IF sl.len < sl.cap
    THEN [s |-> [sl EXCEPT !.len = sl.len + 1],
          a |-> [arrs EXCEPT ![sl.arr][sl.len + 1] = e]]
    ELSE LET nc == GrowCap(sl.cap, sl.len + 1)
             na == [i \in 1..nc |-> IF i <= sl.len THEN arrs[sl.arr][i]
                                    ELSE IF i = sl.len + 1 THEN e
                                    ELSE ZeroElem]
         IN [s |-> [arr |-> newid, len |-> sl.len + 1, cap |-> nc],
             a |-> (newid :> na) @@ arrs]

\* --------------------------------------------------------------- errors
\* An error value: nil (no members), a single error, or an Errors aggregate.
NoError == [agg |-> FALSE, errs |-> <<>>]
Single(e) == [agg |-> FALSE, errs |-> <<e>>]
Aggregate(es) == [agg |-> TRUE, errs |-> es]
IsNilErr(e) == ~e.agg /\ e.errs = <<>>

ErrRecordNotFound == Single("record not found")
ErrInvalidSQL == Single("invalid SQL")
ErrInvalidTransaction == Single("no valid transaction")
ErrCantStartTransaction == Single("can't start transaction")

\* --------------------------------------------------------------- Search
NoSelect == [set |-> FALSE, query |-> NilV, args |-> <<>>]

\* the zero Search struct
ZeroSearch ==
    [db |-> <<>>,
     whereConditions |-> NilSlice, orConditions |-> NilSlice,
     notConditions |-> NilSlice, havingConditions |-> NilSlice,
     joinConditions |-> NilSlice, initAttrs |-> NilSlice,
     assignAttrs |-> NilSlice, selects |-> NoSelect, omits |-> <<>>,
     orders |-> NilSlice, preload |-> <<>>, offset |-> NilV, limit |-> NilV,
     group |-> "", tableName |-> "", raw |-> FALSE, Unscoped |-> FALSE,
     ignoreOrderQuery |-> FALSE]

\* identity of the array a setter of session `id` allocates for `field`
ArrId(id, field) == <<id, field>>

\* Search.clone: a shallow struct copy, slice headers included
SearchClone(s) == s

\* Search.Where / Not / Or: append one {"query", "args"} pair
SearchWhere(s, query, values, arrs, aid) ==
    LET r == GoAppend(s.whereConditions, Cond(query, values), arrs, aid)
    IN [s |-> [s EXCEPT !.whereConditions = r.s], a |-> r.a]

SearchNot(s, query, values, arrs, aid) ==
    LET r == GoAppend(s.notConditions, Cond(query, values), arrs, aid)
    IN [s |-> [s EXCEPT !.notConditions = r.s], a |-> r.a]

SearchOr(s, query, values, arrs, aid) ==
    LET r == GoAppend(s.orConditions, Cond(query, values), arrs, aid)
    IN [s |-> [s EXCEPT !.orConditions = r.s], a |-> r.a]

\* toSearchableMap is opaque here: the attrs are kept as one element
SearchAttrs(s, attrs, arrs, aid) ==
    LET r == GoAppend(s.initAttrs, Cond(attrs, <<>>), arrs, aid)
    IN [s |-> [s EXCEPT !.initAttrs = r.s], a |-> r.a]

SearchAssign(s, attrs, arrs, aid) ==
    LET r == GoAppend(s.assignAttrs, Cond(attrs, <<>>), arrs, aid)
    IN [s |-> [s EXCEPT !.assignAttrs = r.s], a |-> r.a]

\* (mutant) Order that never clears the terms accumulated so far
SearchOrderKeeping(s, value, reorder, arrs, aid) ==
    IF value # NilV /\ value # StrV("")
    THEN LET r == GoAppend(s.orders, Cond(value, <<>>), arrs, aid)
         IN [s |-> [s EXCEPT !.orders = r.s], a |-> r.a]
    ELSE [s |-> s, a |-> arrs]

\* Search.Order: reorder is the variadic flag list; []interface{}{} is a
\* fresh empty slice; a nil or "" value is not appended
SearchOrder(s, value, reorder, arrs, aid) ==
    LET cleared == IF Len(reorder) > 0 /\ reorder[1] THEN NilSlice ELSE s.orders
    IN IF value # NilV /\ value # StrV("")
       THEN LET r == GoAppend(cleared, Cond(value, <<>>), arrs, aid)
            IN [s |-> [s EXCEPT !.orders = r.s], a |-> r.a]
       ELSE [s |-> [s EXCEPT !.orders = cleared], a |-> arrs]

SearchSelect(s, query, args, arrs) ==
    [s |-> [s EXCEPT !.selects = [set |-> TRUE, query |-> query, args |-> args]],
     a |-> arrs]

SearchOmit(s, columns, arrs) == [s |-> [s EXCEPT !.omits = columns], a |-> arrs]

\* (mutant) Limit that keeps numbers only
SearchLimitNumeric(s, limit, arrs) ==
    [s |-> [s EXCEPT !.limit = IF limit.t = "int" THEN limit ELSE IntV(-1)], a |-> arrs]

SearchLimit(s, limit, arrs) == [s |-> [s EXCEPT !.limit = limit], a |-> arrs]

SearchOffset(s, offset, arrs) == [s |-> [s EXCEPT !.offset = offset], a |-> arrs]

\* Search.getInterfaceAsSQL: strings and integers are formatted with %v,
\* anything else records ErrInvalidSQL on s.db; "-1" becomes "".
\* Returns the string and whether AddError(ErrInvalidSQL) was called.
getInterfaceAsSQL(value) ==
    LET ok == value.t \in {"string", "int"}
        str == IF value.t = "string" THEN value.s
               ELSE IF value.t = "int" THEN ToString(value.i)
               ELSE ""
    IN [str |-> IF str = "-1" THEN "" ELSE str, invalid |-> ~ok]

\* Search.Group(query string): the parameter is always a string
SearchGroup(s, query, arrs) ==
    [s |-> [s EXCEPT !.group = getInterfaceAsSQL(StrV(query)).str], a |-> arrs,
     invalid |-> getInterfaceAsSQL(StrV(query)).invalid]

\* Search.Having: an *Expression is unwrapped into its text and its own
\* arguments (the values passed along are not used); anything else is
\* stored like Where does
SearchHaving(s, query, values, arrs, aid) ==
    LET c == IF query.t = "expr" THEN Cond(StrV(query.s), query.a)
             ELSE Cond(query, values)
        r == GoAppend(s.havingConditions, c, arrs, aid)
    IN [s |-> [s EXCEPT !.havingConditions = r.s], a |-> r.a]

SearchJoins(s, query, values, arrs, aid) ==
    LET r == GoAppend(s.joinConditions, Cond(StrV(query), values), arrs, aid)
    IN [s |-> [s EXCEPT !.joinConditions = r.s], a |-> r.a]

\* the entries of a preload list whose schema differs from `schema`
RECURSIVE PreloadOthers(_, _)
PreloadOthers(pl, schema) ==
    IF pl = <<>> THEN <<>>
    ELSE IF Head(pl).schema # schema
         THEN <<Head(pl)>> \o PreloadOthers(Tail(pl), schema)
         ELSE PreloadOthers(Tail(pl), schema)

\* (mutant) Preload that appends without dropping the earlier entry
SearchPreloadAppending(s, schema, values, arrs) ==
    [s |-> [s EXCEPT !.preload = Append(s.preload,
                                        [schema |-> schema, conditions |-> values])],
     a |-> arrs]

\* Search.Preload: the list is rebuilt into a fresh slice on every call, so
\* no backing array of a preload list is ever shared; kept as a sequence
SearchPreload(s, schema, values, arrs) ==
    [s |-> [s EXCEPT !.preload = Append(PreloadOthers(s.preload, schema),
                                        [schema |-> schema, conditions |-> values])],
     a |-> arrs]

SearchRaw(s, b, arrs) == [s |-> [s EXCEPT !.raw = b], a |-> arrs]

SearchUnscoped(s, arrs) == [s |-> [s EXCEPT !.Unscoped = TRUE], a |-> arrs]

SearchTable(s, name, arrs) == [s |-> [s EXCEPT !.tableName = name], a |-> arrs]

\* what a Search observes: every list resolved through the backing arrays
SearchView(s, arrs) ==
    [whereConditions |-> Elems(s.whereConditions, arrs),
     orConditions |-> Elems(s.orConditions, arrs),
     notConditions |-> Elems(s.notConditions, arrs),
     havingConditions |-> Elems(s.havingConditions, arrs),
     joinConditions |-> Elems(s.joinConditions, arrs),
     initAttrs |-> Elems(s.initAttrs, arrs),
     assignAttrs |-> Elems(s.assignAttrs, arrs),
     selects |-> s.selects, omits |-> s.omits,
     orders |-> Elems(s.orders, arrs), preload |-> s.preload,
     offset |-> s.offset, limit |-> s.limit, group |-> s.group,
     tableName |-> s.tableName, raw |-> s.raw, Unscoped |-> s.Unscoped,
     ignoreOrderQuery |-> s.ignoreOrderQuery]

\* ------------------------------------------------------ error accumulation
\* repository.GetErrors
GetErrors(r) ==
    IF r.err.agg THEN r.err.errs
    ELSE IF ~IsNilErr(r.err) THEN <<r.err.errs[1]>>
    ELSE <<>>

InSeq(e, sq) == \E i \in 1..Len(sq) : sq[i] = e

\* Errors.Add for a list of plain (non-aggregate) errors: each error that is
\* not yet a member is appended
RECURSIVE AddMembers(_, _)
AddMembers(errs, new) ==
    IF new = <<>> THEN errs
    ELSE AddMembers(IF InSeq(Head(new), errs) THEN errs ELSE Append(errs, Head(new)),
                    Tail(new))

\* Errors.Add(err): nil is skipped, an aggregate is added member by member
ErrorsAdd(errs, err) == AddMembers(errs, err.errs)

\* one call of the logger: from a detached goroutine, or before the caller
\* goes on
LogEntry(how, err) == [how |-> how, err |-> err]

\* (mutant) AddError that stores the new error without merging it with the
\* errors recorded so far
AddErrorOverwriting(r, err) ==
    IF IsNilErr(err) THEN [r |-> r, ret |-> err, emit |-> <<>>]
    ELSE [r |-> [r EXCEPT !.err = err], ret |-> err, emit |-> <<>>]

\* (mutant) AddError that wraps even a first error into an aggregate
AddErrorAlwaysAggregate(r, err) ==
    IF IsNilErr(err) THEN [r |-> r, ret |-> err, emit |-> <<>>]
    ELSE IF err # ErrRecordNotFound
    THEN [r |-> [r EXCEPT !.err = Aggregate(ErrorsAdd(GetErrors(r), err))],
          ret |-> Aggregate(ErrorsAdd(GetErrors(r), err)), emit |-> <<>>]
    ELSE [r |-> [r EXCEPT !.err = err], ret |-> err, emit |-> <<>>]

\* (mutant) AddError that records an error only when it hands it to the
\* logger
AddErrorLogGated(r, err) ==
    IF IsNilErr(err) THEN [r |-> r, ret |-> err, emit |-> <<>>]
    ELSE IF err # ErrRecordNotFound
    THEN LET errors == ErrorsAdd(GetErrors(r), err)
             e2 == IF Len(errors) > 1 THEN Aggregate(errors) ELSE err
         IN IF r.logMode = 1 THEN [r |-> r, ret |-> err, emit |-> <<>>]
            ELSE [r |-> [r EXCEPT !.err = e2], ret |-> e2,
                  emit |-> IF r.logMode = 0 THEN <<LogEntry("detached", err)>>
                           ELSE <<LogEntry("sync", err)>>]
    ELSE [r |-> [r EXCEPT !.err = err], ret |-> err, emit |-> <<>>]

\* (mutant) AddError whose Log prints whatever the mode is
AddErrorUngated(r, err) ==
    IF IsNilErr(err) THEN [r |-> r, ret |-> err, emit |-> <<>>]
    ELSE IF err # ErrRecordNotFound
    THEN LET errors == ErrorsAdd(GetErrors(r), err)
             e2 == IF Len(errors) > 1 THEN Aggregate(errors) ELSE err
         IN [r |-> [r EXCEPT !.err = e2], ret |-> e2,
             emit |-> IF r.logMode = 0 THEN <<LogEntry("detached", err)>>
                      ELSE <<LogEntry("sync", err)>>]
    ELSE [r |-> [r EXCEPT !.err = err], ret |-> err, emit |-> <<>>]

\* repository.AddError on the session record r: the new record, the value
\* returned, and how the error is handed to the logger
AddError(r, err) ==
    IF IsNilErr(err) THEN [r |-> r, ret |-> err, emit |-> <<>>]
    ELSE IF err # ErrRecordNotFound
    THEN LET errors == ErrorsAdd(GetErrors(r), err)
             e2 == IF Len(errors) > 1 THEN Aggregate(errors) ELSE err
         IN [r |-> [r EXCEPT !.err = e2], ret |-> e2,
             emit |-> IF r.logMode = 0 THEN <<LogEntry("detached", err)>>
                      ELSE IF r.logMode = 2 THEN <<LogEntry("sync", err)>>
                      ELSE <<>>]
    ELSE [r |-> [r EXCEPT !.err = err], ret |-> err, emit |-> <<>>]

\* repository.RecordNotFound
RecordNotFound(r) ==
    \E i \in 1..Len(GetErrors(r)) : Single(GetErrors(r)[i]) = ErrRecordNotFound

\* ------------------------------------------------------------- sessions
RootId == <<>>

\* the record of the last call made on a session itself: what it was, on
\* which session, and what it did on the executor and the callback chains
NoCall == [op |-> "none", recv |-> RootId, commits |-> 0, rollbacks |-> 0,
           begins |-> 0, result |-> NoError, ran |-> <<>>,
           arg |-> NilV, out |-> NilV, pipes |-> <<>>,
           assoc |-> [err |-> NoError, scopeIsNil |-> TRUE, column |-> "",
                      fieldIsNil |-> TRUE]]

\* newModelStructsMap(): the empty descriptor cache
NoModelStructs == [t \in {} |-> ""]

\* one call: the method and what was passed to it
Call(op, query, args) == [op |-> op, query |-> query, args |-> args]

\* the session a call on receiver r returns is named r followed by the call
NewId(r, op, query, args) == Append(r, Call(op, query, args))
Receiver(id) == SubSeq(id, 1, Len(id) - 1)
LastCallOf(id) == id[Len(id)]

PlainDB == [kind |-> "db", id |-> 0]

\* one entry of a callback chain: its name and the function registered under
\* it, a function being told apart by the session it was registered through
\* (the handlers of the default chains are built in)
Handler(name, builtin, by) == [name |-> name, builtin |-> builtin, by |-> by]

\* *Callback: nil, or a registry; of its chains the query chain is kept
NilCallback == [isNil |-> TRUE, queries |-> <<>>, ref |-> 0]
DefaultCallback ==
    [isNil |-> FALSE, queries |-> <<Handler("gorm:query", TRUE, RootId)>>, ref |-> 0]
\* the settings of a session are a Go map: values holds its entries and
\* valuesRef names the map object, which Open and Clone create anew
NoValues == [k \in {} |-> NilV]

\* the repository built by Open: no Search yet, its own parent
OpenSession ==
    [value |-> NilV, err |-> NoError, db |-> PlainDB, logMode |-> 0,
     searchIsNil |-> TRUE, search |-> ZeroSearch, values |-> NoValues,
     valuesRef |-> RootId, parent |-> RootId, blockGlobalUpdate |-> FALSE,
     logger |-> "defaultLogger", callbacks |-> DefaultCallback,
     rowsAffected |-> 0, singularTable |-> FALSE]

\* (mutant) Clone that starts the new session with an empty error slot
CloneDroppingError(r, id) ==
    [value |-> r.value, err |-> NoError, db |-> r.db, logMode |-> r.logMode,
     searchIsNil |-> FALSE,
     search |-> IF r.searchIsNil
                THEN [ZeroSearch EXCEPT !.limit = IntV(-1), !.offset = IntV(-1),
                                        !.db = id]
                ELSE [SearchClone(r.search) EXCEPT !.db = id],
     values |-> [k \in DOMAIN r.values |-> r.values[k]], valuesRef |-> id,
     parent |-> r.parent, blockGlobalUpdate |-> r.blockGlobalUpdate,
     logger |-> r.logger, callbacks |-> NilCallback,
     rowsAffected |-> 0, singularTable |-> FALSE]

\* (mutant) Clone that installs the zero Search on a session that had none
CloneZeroSearch(r, id) ==
    [value |-> r.value, err |-> r.err, db |-> r.db, logMode |-> r.logMode,
     searchIsNil |-> FALSE,
     search |-> IF r.searchIsNil THEN [ZeroSearch EXCEPT !.db = id]
                ELSE [SearchClone(r.search) EXCEPT !.db = id],
     values |-> [k \in DOMAIN r.values |-> r.values[k]], valuesRef |-> id,
     parent |-> r.parent, blockGlobalUpdate |-> r.blockGlobalUpdate,
     logger |-> r.logger, callbacks |-> NilCallback,
     rowsAffected |-> 0, singularTable |-> FALSE]

\* (mutant) Clone that makes the new session its own parent
CloneOwnParent(r, id) ==
    [value |-> r.value, err |-> r.err, db |-> r.db, logMode |-> r.logMode,
     searchIsNil |-> FALSE,
     search |-> IF r.searchIsNil
                THEN [ZeroSearch EXCEPT !.limit = IntV(-1), !.offset = IntV(-1),
                                        !.db = id]
                ELSE [SearchClone(r.search) EXCEPT !.db = id],
     values |-> [k \in DOMAIN r.values |-> r.values[k]], valuesRef |-> id,
     parent |-> id, blockGlobalUpdate |-> r.blockGlobalUpdate,
     logger |-> r.logger, callbacks |-> NilCallback,
     rowsAffected |-> 0, singularTable |-> FALSE]

\* (mutant) Clone that leaves the copied Search pointing at the receiver
CloneKeepingBackPointer(r, id) ==
    [value |-> r.value, err |-> r.err, db |-> r.db, logMode |-> r.logMode,
     searchIsNil |-> FALSE,
     search |-> IF r.searchIsNil
                THEN [ZeroSearch EXCEPT !.limit = IntV(-1), !.offset = IntV(-1),
                                        !.db = id]
                ELSE SearchClone(r.search),
     values |-> [k \in DOMAIN r.values |-> r.values[k]], valuesRef |-> id,
     parent |-> r.parent, blockGlobalUpdate |-> r.blockGlobalUpdate,
     logger |-> r.logger, callbacks |-> NilCallback,
     rowsAffected |-> 0, singularTable |-> FALSE]

\* repository.Clone of the record r into a new object named id
Clone(r, id) ==
    [value |-> r.value, err |-> r.err, db |-> r.db, logMode |-> r.logMode,
     searchIsNil |-> FALSE,
     search |-> IF r.searchIsNil
                THEN [ZeroSearch EXCEPT !.limit = IntV(-1), !.offset = IntV(-1),
                                        !.db = id]
                ELSE [SearchClone(r.search) EXCEPT !.db = id],
     values |-> [k \in DOMAIN r.values |-> r.values[k]], valuesRef |-> id,
     parent |-> r.parent, blockGlobalUpdate |-> r.blockGlobalUpdate,
     logger |-> r.logger, callbacks |-> NilCallback,
     rowsAffected |-> 0, singularTable |-> FALSE]

\* what a session observes of its Search, with its bound value
ViewIn(ss, arrs, id) ==
    [searchIsNil |-> ss[id].searchIsNil,
     search |-> SearchView(ss[id].search, arrs),
     value |-> ss[id].value]

View(id) == ViewIn(sessions, arrays, id)

otherVars == <<searches, txs, proc, added, modelStructsMap, handles, model,
               setterCalls, pending, lastCall>>

\* a chain call returns a new session; res is what the Search setter left
Returned(id, sess, res) ==
    /\ id \notin DOMAIN sessions
    /\ sessions' = (id :> [sess EXCEPT !.search = res.s]) @@ sessions
    /\ arrays' = res.a
    /\ UNCHANGED <<otherVars, log>>

\* (mutant) Where applied to the receiver's own Search before cloning
RepoWhereInPlace(r, query, args) ==
    LET id == NewId(r, "Where", query, args)
        res == SearchWhere(sessions[r].search, query, args, arrays, ArrId(id, "where"))
    IN /\ id \notin DOMAIN sessions
       /\ sessions' = (id :> Clone([sessions[r] EXCEPT !.search = res.s,
                                                       !.searchIsNil = FALSE], id))
                      @@ [sessions EXCEPT ![r].search = res.s, ![r].searchIsNil = FALSE]
       /\ arrays' = res.a
       /\ UNCHANGED <<otherVars, log>>

\* r.Clone().Search().Where(query, args...).db  and its siblings
RepoWhere(r, query, args) ==
    LET id == NewId(r, "Where", query, args)
        c == Clone(sessions[r], id)
    IN Returned(id, c, SearchWhere(c.search, query, args, arrays, ArrId(id, "where")))

RepoOr(r, query, args) ==
    LET id == NewId(r, "Or", query, args)
        c == Clone(sessions[r], id)
    IN Returned(id, c, SearchOr(c.search, query, args, arrays, ArrId(id, "or")))

RepoNot(r, query, args) ==
    LET id == NewId(r, "Not", query, args)
        c == Clone(sessions[r], id)
    IN Returned(id, c, SearchNot(c.search, query, args, arrays, ArrId(id, "not")))

RepoHaving(r, query, args) ==
    LET id == NewId(r, "Having", query, args)
        c == Clone(sessions[r], id)
    IN Returned(id, c, SearchHaving(c.search, query, args, arrays, ArrId(id, "having")))

\* Joins takes its query as a string
RepoJoins(r, query, args) ==
    LET id == NewId(r, "Joins", StrV(query), args)
        c == Clone(sessions[r], id)
    IN Returned(id, c, SearchJoins(c.search, query, args, arrays, ArrId(id, "joins")))

RepoLimit(r, limit) ==
    LET id == NewId(r, "Limit", limit, <<>>)
        c == Clone(sessions[r], id)
    IN Returned(id, c, SearchLimit(c.search, limit, arrays))

RepoOffset(r, offset) ==
    LET id == NewId(r, "Offset", offset, <<>>)
        c == Clone(sessions[r], id)
    IN Returned(id, c, SearchOffset(c.search, offset, arrays))

\* reorder is the variadic flag list: <<>>, <<TRUE>> or <<FALSE>>
RepoOrder(r, value, reorder) ==
    LET id == NewId(r, "Order", value, [i \in 1..Len(reorder) |-> BoolV(reorder[i])])
        c == Clone(sessions[r], id)
    IN Returned(id, c, SearchOrder(c.search, value, reorder, arrays, ArrId(id, "orders")))

RepoSelect(r, query, args) ==
    LET id == NewId(r, "Select", query, args)
        c == Clone(sessions[r], id)
    IN Returned(id, c, SearchSelect(c.search, query, args, arrays))

\* columns is a list of column names
RepoOmit(r, columns) ==
    LET id == NewId(r, "Omit", NilV, [i \in 1..Len(columns) |-> StrV(columns[i])])
        c == Clone(sessions[r], id)
    IN Returned(id, c, SearchOmit(c.search, columns, arrays))

\* Group: getInterfaceAsSQL reports an unsupported value on the Search's
\* own session, which is the clone
RepoGroup(r, query) ==
    LET id == NewId(r, "Group", StrV(query), <<>>)
        c == Clone(sessions[r], id)
        res == SearchGroup(c.search, query, arrays)
        ae == AddError(c, ErrInvalidSQL)
    IN /\ id \notin DOMAIN sessions
       /\ sessions' = (id :> [(IF res.invalid THEN ae.r ELSE c) EXCEPT !.search = res.s])
                      @@ sessions
       /\ arrays' = res.a
       /\ log' = IF res.invalid THEN log \o ae.emit ELSE log
       /\ UNCHANGED otherVars

RepoPreload(r, column, conditions) ==
    LET id == NewId(r, "Preload", StrV(column), conditions)
        c == Clone(sessions[r], id)
    IN Returned(id, c, SearchPreload(c.search, column, conditions, arrays))

RepoUnscoped(r) ==
    LET id == NewId(r, "Unscoped", NilV, <<>>)
        c == Clone(sessions[r], id)
    IN Returned(id, c, SearchUnscoped(c.search, arrays))

RepoAttrs(r, attrs) ==
    LET id == NewId(r, "Attrs", attrs, <<>>)
        c == Clone(sessions[r], id)
    IN Returned(id, c, SearchAttrs(c.search, attrs, arrays, ArrId(id, "initAttrs")))

RepoAssign(r, attrs) ==
    LET id == NewId(r, "Assign", attrs, <<>>)
        c == Clone(sessions[r], id)
    IN Returned(id, c, SearchAssign(c.search, attrs, arrays, ArrId(id, "assignAttrs")))

\* Raw: r.Clone().Search().Raw(true).Where(sql, values...).db
RepoRaw(r, sql, values) ==
    LET id == NewId(r, "Raw", StrV(sql), values)
        c == Clone(sessions[r], id)
        raw == SearchRaw(c.search, TRUE, arrays)
    IN Returned(id, c, SearchWhere(raw.s, StrV(sql), values, raw.a, ArrId(id, "where")))

\* Model: the clone is bound to value
RepoModel(r, value) ==
    LET id == NewId(r, "Model", value, <<>>)
        c == Clone(sessions[r], id)
    IN Returned(id, [c EXCEPT !.value = value], [s |-> c.search, a |-> arrays])

\* Table: the clone's table is overridden and its bound value dropped
RepoTable(r, name) ==
    LET id == NewId(r, "Table", StrV(name), <<>>)
        c == Clone(sessions[r], id)
    IN Returned(id, [c EXCEPT !.value = NilV], SearchTable(c.search, name, arrays))

\* (mutant) Set that writes the bag of the receiver as well, as a clone
\* sharing the map of its source would
RepoSetShared(r, name, value) ==
    LET id == NewId(r, "Set", StrV(name), <<value>>)
        c == Clone(sessions[r], id)
    IN /\ id \notin DOMAIN sessions
       /\ sessions' = (id :> [c EXCEPT !.values = (name :> value) @@ c.values])
                      @@ [sessions EXCEPT ![r].values = (name :> value) @@ sessions[r].values]
       /\ UNCHANGED <<arrays, otherVars, log>>

\* Set: r.Clone().InstantSet(name, value)
RepoSet(r, name, value) ==
    LET id == NewId(r, "Set", StrV(name), <<value>>)
        c == Clone(sessions[r], id)
    IN Returned(id, [c EXCEPT !.values = (name :> value) @@ c.values],
                [s |-> c.search, a |-> arrays])

\* r.values[name] = value on the map r holds: every session holding that
\* map sees the entry
StoreValue(ss, r, name, value) ==
    [s \in DOMAIN ss |->
        IF ss[s].valuesRef = ss[r].valuesRef
        THEN [ss[s] EXCEPT !.values = (name :> value) @@ ss[r].values]
        ELSE ss[s]]

\* InstantSet: r.values[name] = value, on the receiver itself
RepoInstantSet(r, name, value) ==
    /\ sessions' = StoreValue(sessions, r, name, value)
    /\ lastCall' = [NoCall EXCEPT !.op = "InstantSet", !.recv = r]
    /\ UNCHANGED <<arrays, searches, txs, proc, log, added, modelStructsMap, handles, model, setterCalls, pending>>

\* Get: the value stored under name and whether there is one
Get(r, name) ==
    IF name \in DOMAIN r.values THEN [value |-> r.values[name], ok |-> TRUE]
    ELSE [value |-> NilV, ok |-> FALSE]

\* (mutant) New that returns the plain clone
RepoNewKeeping(r) ==
    LET id == NewId(r, "New", NilV, <<>>)
        c == Clone(sessions[r], id)
    IN Returned(id, c, [s |-> c.search, a |-> arrays])

\* New: the clone's Search and bound value are set to nil
RepoNew(r) ==
    LET id == NewId(r, "New", NilV, <<>>)
        c == Clone(sessions[r], id)
    IN Returned(id, [c EXCEPT !.searchIsNil = TRUE, !.value = NilV],
                [s |-> ZeroSearch, a |-> arrays])

\* AddError called on the session r itself
RepoAddError(r, err) ==
    /\ sessions' = [sessions EXCEPT ![r] = AddError(sessions[r], err).r]
    /\ log' = log \o AddError(sessions[r], err).emit
    /\ lastCall' = [NoCall EXCEPT !.op = "AddError", !.recv = r,
                                  !.result = AddError(sessions[r], err).ret]
    /\ UNCHANGED <<arrays, searches, txs, proc, added, modelStructsMap, handles, model, setterCalls, pending>>

\* LogMode, SetLogger, BlockGlobalUpdate: set on the receiver itself
RepoLogMode(r, enable) ==
    /\ sessions' = [sessions EXCEPT ![r].logMode = IF enable THEN 2 ELSE 1]
    /\ lastCall' = [NoCall EXCEPT !.op = "LogMode", !.recv = r]
    /\ UNCHANGED <<arrays, searches, txs, proc, log, added, modelStructsMap, handles, model, setterCalls, pending>>

RepoSetLogger(r, logger) ==
    /\ sessions' = [sessions EXCEPT ![r].logger = logger]
    /\ lastCall' = [NoCall EXCEPT !.op = "SetLogger", !.recv = r]
    /\ UNCHANGED <<arrays, searches, txs, proc, log, added, modelStructsMap, handles, model, setterCalls, pending>>

RepoBlockGlobalUpdate(r, enable) ==
    /\ sessions' = [sessions EXCEPT ![r].blockGlobalUpdate = enable]
    /\ lastCall' = [NoCall EXCEPT !.op = "BlockGlobalUpdate", !.recv = r]
    /\ UNCHANGED <<arrays, searches, txs, proc, log, added, modelStructsMap, handles, model, setterCalls, pending>>

\* the query chain a terminal call on r hands to callCallbacks:
\* r.parent.Callbacks().queries
QueryChainIn(ss, r) == ss[ss[r].parent].callbacks.queries

InChain(name, chain) == \E i \in 1..Len(chain) : chain[i].name = name

\* r.Callback(): the registry of r.parent is replaced by a copy of itself
\* and that copy is returned; the caller keeps it as a handle.  Copying the
\* registry of a parent that has none panics.
RepoCallback(r) ==
    LET p == sessions[r].parent
        cb == [isNil |-> FALSE, queries |-> sessions[p].callbacks.queries,
               ref |-> Len(handles) + 1]
    IN IF sessions[p].callbacks.isNil
       THEN /\ lastCall' = [NoCall EXCEPT !.op = "Callback", !.recv = r,
                                         !.out = StrV("panic")]
            /\ UNCHANGED <<sessions, arrays, searches, txs, proc, log, added,
                           modelStructsMap, handles, model, setterCalls, pending>>
       ELSE /\ sessions' = [sessions EXCEPT ![p].callbacks = cb]
            /\ handles' = Append(handles, [by |-> r, queries |-> cb.queries])
            /\ lastCall' = [NoCall EXCEPT !.op = "Callback", !.recv = r]
            /\ UNCHANGED <<arrays, searches, txs, proc, log, added, modelStructsMap, model, setterCalls, pending>>

\* handle.Query().Register(name, fn) on the h-th handle: the entry is
\* appended to the query chain of that registry object, a name already
\* taken being refused; every session whose registry is that object sees it
HandleRegister(h, name) ==
    LET cb == handles[h]
        reg == IF InChain(name, cb.queries) THEN cb.queries
               ELSE Append(cb.queries, Handler(name, FALSE, cb.by))
    IN /\ handles' = [handles EXCEPT ![h].queries = reg]
       /\ sessions' = [s \in DOMAIN sessions |->
                          IF ~sessions[s].callbacks.isNil /\ sessions[s].callbacks.ref = h
                          THEN [sessions[s] EXCEPT !.callbacks.queries = reg]
                          ELSE sessions[s]]
       /\ lastCall' = [NoCall EXCEPT !.op = "Register", !.recv = cb.by]
       /\ UNCHANGED <<arrays, searches, txs, proc, log, added, modelStructsMap, model, setterCalls, pending>>

\* ---- the setters of the Repository interface: each works on the
\* receiver itself and returns it; the calls made are counted
MaxSetterCalls == 1

SetField(r, op, rec) ==
    /\ setterCalls < MaxSetterCalls
    /\ setterCalls' = setterCalls + 1
    /\ sessions' = [sessions EXCEPT ![r] = rec]
    /\ lastCall' = [NoCall EXCEPT !.op = op, !.recv = r]
    /\ UNCHANGED <<arrays, searches, txs, proc, log, added, modelStructsMap, handles, model,
                 pending>>

\* SetValue(v): r.value = v
RepoSetValue(r, v) == SetField(r, "SetValue", [sessions[r] EXCEPT !.value = v])

\* SetError(err): r.err = err, whatever the slot held; nothing is logged
RepoSetError(r, err) == SetField(r, "SetError", [sessions[r] EXCEPT !.err = err])

\* SetRowsAffected(row): r.rowsAffected = row
RepoSetRowsAffected(r, row) ==
    SetField(r, "SetRowsAffected", [sessions[r] EXCEPT !.rowsAffected = row])

\* SetSearch(search): r.search = search, where search is nil or the Search
\* of the session src, which keeps pointing back at src
RepoSetSearch(r, isNil, src) ==
    SetField(r, "SetSearch",
            IF isNil \/ sessions[src].searchIsNil
            THEN [sessions[r] EXCEPT !.searchIsNil = TRUE, !.search = ZeroSearch]
            ELSE [sessions[r] EXCEPT !.searchIsNil = FALSE,
                                     !.search = sessions[src].search])

\* SetParent(p): r.parent = p
RepoSetParent(r, p) == SetField(r, "SetParent", [sessions[r] EXCEPT !.parent = p])

\* SetSQLCommonDB(sc): r.db = sc, the executor of the session src
RepoSetSQLCommonDB(r, src) ==
    SetField(r, "SetSQLCommonDB", [sessions[r] EXCEPT !.db = sessions[src].db])

\* the registry object the h-th handle names, as a session holds it
HandleCallback(h) == [isNil |-> FALSE, queries |-> handles[h].queries, ref |-> h]

\* SetCallbacks(cb): r.callbacks = cb, where cb is nil, the registry another
\* session holds (s.Callbacks()) or a handle the caller kept
RepoSetCallbacks(r, cb) ==
    SetField(r, "SetCallbacks", [sessions[r] EXCEPT !.callbacks = cb])

\* SetIsSingularTable(singularTable): r.singularTable = singularTable; the
\* descriptor cache is left as it is
RepoSetIsSingularTable(r, singularTable) ==
    SetField(r, "SetIsSingularTable",
            [sessions[r] EXCEPT !.singularTable = singularTable])

\* the name of a map built by the caller: the first one no session holds
MapRef(n) == <<Call("map", IntV(n), <<>>)>>
FreshMapRef(ss) ==
    MapRef(CHOOSE n \in 1..(Cardinality(DOMAIN ss) + 1) :
              /\ \A s \in DOMAIN ss : ss[s].valuesRef # MapRef(n)
              /\ \A m \in 1..(n - 1) : \E s \in DOMAIN ss : ss[s].valuesRef = MapRef(m))

\* SetValues(vals): r.values = vals, where vals is a map the caller built
\* with the one entry name -> value ...
RepoSetValues(r, name, value) ==
    SetField(r, "SetValues",
            [sessions[r] EXCEPT !.values = (name :> value),
                                !.valuesRef = FreshMapRef(sessions)])

\* ... or the map src.Values() of another session, shared from then on
RepoSetValuesOf(r, src) ==
    SetField(r, "SetValues",
            [sessions[r] EXCEPT !.values = sessions[src].values,
                                !.valuesRef = sessions[src].valuesRef])

\* a Model value as declared: no Extra map, an empty ExtraJson column
NilMap == [isNil |-> TRUE, m |-> [k \in {} |-> 0]]
ZeroModel == [Extra |-> NilMap, ExtraJson |-> ""]

\* ------------------------------------------------- scopes and descriptors
\* the struct type a bound value points to ("" when no record is bound)
TypeOf(value) == IF value.t = "string" THEN "User" ELSE ""

\* the table name a descriptor defaults to: the pluralized type name unless
\* singular naming is active
DefaultTableName(type, singular) == IF singular THEN "user" ELSE "users"

\* Scope.GetModelStruct: the descriptor of the type of value, computed and
\* cached on the first call, looked up afterwards
GetModelStruct(cache, value, singular) ==
    IF TypeOf(value) = "" THEN [cache |-> cache, table |-> ""]
    ELSE IF TypeOf(value) \in DOMAIN cache
    THEN [cache |-> cache, table |-> cache[TypeOf(value)]]
    ELSE [cache |-> (TypeOf(value) :> DefaultTableName(TypeOf(value), singular)) @@ cache,
          table |-> DefaultTableName(TypeOf(value), singular)]

\* NewScope(value) on the session record r: the scope works on a clone of r
\* bound to value, and on its own copy of that clone's Search; its
\* instance-local settings start empty
NewScope(r, id, value) ==
    LET dbClone == [Clone(r, id) EXCEPT !.value = value]
    IN [db |-> dbClone, Search |-> SearchClone(dbClone.search), Value |-> value,
        instance |-> NoValues]

\* ------------------------------------------------- pipelines and fetches
\* what the executor answers to the statement of one pipeline: it fails, or
\* it succeeds on no row or on one row
Outcomes == {"error", "rows0", "rows1"}
EExec == Single("driver error")

\* a destination that is a slice of records (Find), as opposed to one record
UserSlice == StrV("&[]User{}")

\* Scope.inlineCondition(where...): a non-empty list is one more Where on
\* the scope's Search
inlineCondition(scope, where, arrs, aid) ==
    IF Len(where) > 0
    THEN LET res == SearchWhere(scope.Search, where[1], Tail(where), arrs, aid)
         IN [scope |-> [scope EXCEPT !.Search = res.s], a |-> res.a]
    ELSE [scope |-> scope, a |-> arrs]

\* Scope.callCallbacks(chain) for the chain of one kind of operation: the
\* handlers do nothing once the error slot of the scope's session is set;
\* otherwise the statement is sent and its outcome recorded through
\* AddError and the rows-affected counter.  A query for one record that
\* finds no row records the not-found sentinel.
callCallbacks(scope, kind, outcome) ==
    LET db == scope.db
        failed == AddError(db, EExec)
        missing == AddError([db EXCEPT !.rowsAffected = 0], ErrRecordNotFound)
    IN IF ~IsNilErr(db.err) THEN [db |-> db, emit |-> <<>>]
       ELSE IF outcome = "error" THEN [db |-> failed.r, emit |-> failed.emit]
       ELSE IF outcome = "rows0"
       THEN IF kind = "queries" /\ scope.Value # UserSlice
            THEN [db |-> missing.r, emit |-> missing.emit]
            ELSE [db |-> [db EXCEPT !.rowsAffected = 0], emit |-> <<>>]
       ELSE [db |-> [db EXCEPT !.rowsAffected = 1], emit |-> <<>>]

\* one run of a pipeline: its kind, what the scope held when it started
\* (limit, conditions, requested primary-key ordering, the attributes to
\* update held in the instance-local settings, destination, whether the
\* error slot was already set) and what the run left on the scope's session
PipeRun(kind, scope, arrs, after) ==
    [kind |-> kind, limit |-> scope.Search.limit,
     where |-> Elems(scope.Search.whereConditions, arrs),
     order |-> Get(scope.db, "gorm:order_by_primary_key"),
     update |-> IF "gorm:update_interface" \in DOMAIN scope.instance
                THEN scope.instance["gorm:update_interface"] ELSE NilV,
     value |-> scope.Value, skipped |-> ~IsNilErr(scope.db.err),
     err |-> after.err, rowsAffected |-> after.rowsAffected]

\* what a call that runs pipelines hands back: the session it returns, the
\* backing arrays, the pipelines run in order and the log emissions
Ran(db, arrs, pipes, emit) == [db |-> db, a |-> arrs, pipes |-> pipes, emit |-> emit]

\* the one element of a singleton set: used to go on from the outcome of a
\* step that has been computed once
The(S) == CHOOSE x \in S : TRUE

\* the scope of a fetch or delete runs its pipeline after the inline
\* conditions were folded in
RunScope(scope, where, kind, outcome, arrs, aid) ==
    The({LET run == callCallbacks(ic.scope, kind, outcome)
         IN Ran(run.db, ic.a, <<PipeRun(kind, ic.scope, ic.a, run.db)>>, run.emit)
         : ic \in {inlineCondition(scope, where, arrs, aid)}})

\* Scope.Set(name, value): on the scope's own session
ScopeSet(scope, name, value) ==
    [scope EXCEPT !.db.values = (name :> value) @@ scope.db.values]

\* Scope.InstanceSet(name, value): in the instance-local settings of the
\* scope, which no session holds and no clone inherits
ScopeInstanceSet(scope, name, value) ==
    [scope EXCEPT !.instance = (name :> value) @@ scope.instance]

\* (mutant) First that leaves the limit of the Search as it is
FirstUnlimited(r, id, out, where, outcome, arrs) ==
    LET newScope == NewScope(r, id, out)
    IN RunScope(ScopeSet(newScope, "gorm:order_by_primary_key", StrV("ASC")),
                where, "queries", outcome, arrs, ArrId(id, "inline"))

\* First(out, where...) on the session record r
FirstRes(r, id, out, where, outcome, arrs) ==
    LET newScope == NewScope(r, id, out)
        limited == [newScope EXCEPT !.Search = SearchLimit(@, IntV(1), arrs).s]
    IN RunScope(ScopeSet(limited, "gorm:order_by_primary_key", StrV("ASC")),
                where, "queries", outcome, arrs, ArrId(id, "inline"))

\* Take(out, where...)
TakeRes(r, id, out, where, outcome, arrs) ==
    LET newScope == NewScope(r, id, out)
        limited == [newScope EXCEPT !.Search = SearchLimit(@, IntV(1), arrs).s]
    IN RunScope(limited, where, "queries", outcome, arrs, ArrId(id, "inline"))

\* Last(out, where...)
LastRes(r, id, out, where, outcome, arrs) ==
    LET newScope == NewScope(r, id, out)
        limited == [newScope EXCEPT !.Search = SearchLimit(@, IntV(1), arrs).s]
    IN RunScope(ScopeSet(limited, "gorm:order_by_primary_key", StrV("DESC")),
                where, "queries", outcome, arrs, ArrId(id, "inline"))

\* Find(out, where...)
FindRes(r, id, out, where, outcome, arrs) ==
    RunScope(NewScope(r, id, out), where, "queries", outcome, arrs, ArrId(id, "inline"))

\* Delete(value, where...)
DeleteRes(r, id, value, where, outcome, arrs) ==
    RunScope(NewScope(r, id, value), where, "deletes", outcome, arrs, ArrId(id, "inline"))

\* a call on session r that runs pipelines and returns the session res.db;
\* the scope's descriptor lookup fills the cache.  The chain is read from
\* the registry of r.parent once the inline conditions are folded in: with
\* no registry there the call panics and returns nothing.  Each pipeline is
\* handed the chain of its own kind; of the chains the registry keeps the
\* query chain, and lastCall.ran is that chain when a query pipeline was
\* handed it (First, Take, Last, Find) and empty when the call handed out
\* the delete chain.
Terminal(r, op, out, where, result) ==
    \E res \in {result} :
        /\ NewId(r, op, out, where) \notin DOMAIN sessions
        /\ arrays' = res.a
        /\ IF sessions[sessions[r].parent].callbacks.isNil
           THEN /\ lastCall' = [NoCall EXCEPT !.op = op, !.recv = r, !.arg = out,
                                             !.out = StrV("panic")]
                /\ UNCHANGED <<sessions, log, modelStructsMap>>
           ELSE /\ sessions' = (NewId(r, op, out, where) :> res.db) @@ sessions
                /\ log' = log \o res.emit
                /\ modelStructsMap' = GetModelStruct(modelStructsMap, out,
                                          sessions[sessions[r].parent].singularTable).cache
                /\ lastCall' = [NoCall EXCEPT !.op = op, !.recv = r, !.arg = out,
                                              !.out = ListV(where), !.pipes = res.pipes,
                                              !.result = res.db.err,
                                              !.ran =
                                                  IF \E i \in 1..Len(res.pipes) :
                                                         res.pipes[i].kind = "queries"
                                                  THEN QueryChainIn(sessions, r)
                                                  ELSE <<>>]
        /\ UNCHANGED <<searches, txs, proc, added, handles, model, setterCalls, pending>>

RepoFirst(r, out, where, outcome) ==
    Terminal(r, "First", out, where,
             FirstRes(sessions[r], NewId(r, "First", out, where), out, where, outcome, arrays))
RepoTake(r, out, where, outcome) ==
    Terminal(r, "Take", out, where,
             TakeRes(sessions[r], NewId(r, "Take", out, where), out, where, outcome, arrays))
RepoLast(r, out, where, outcome) ==
    Terminal(r, "Last", out, where,
             LastRes(sessions[r], NewId(r, "Last", out, where), out, where, outcome, arrays))
RepoFindWhere(r, out, where, outcome) ==
    Terminal(r, "Find", out, where,
             FindRes(sessions[r], NewId(r, "Find", out, where), out, where, outcome, arrays))
RepoDelete(r, value, where, outcome) ==
    Terminal(r, "Delete", value, where,
             DeleteRes(sessions[r], NewId(r, "Delete", value, where), value, where, outcome, arrays))

\* FirstOrCreate and Save run more than one pipeline and wait on the
\* executor in each.  Between two pipelines the call holds what it has
\* computed so far: the step to take next (pc), the call (op, recv, arg,
\* where), the clone c FirstOrCreate took when it started, the pipelines
\* run and the query chain handed to the lookup.
NoPending ==
    [pc |-> "idle", op |-> "", recv |-> <<>>, c |-> OpenSession, arg |-> NilV,
     where |-> <<>>, pipes |-> <<>>, ran |-> <<>>]

\* ------------------------------------------------------- initial state
IdleProc == [pc |-> "idle", recv |-> RootId, tx |-> RootId, err |-> NoError,
             trace |-> <<>>, beginErr |-> NoError, fnRet |-> NoError,
             commitErr |-> NoError, ret |-> NoError]

\* the state right after Open: one root session over a plain connection
Init ==
    /\ sessions = (RootId :> OpenSession)
    /\ arrays = [x \in {} |-> <<>>]
    /\ searches = <<>>
    /\ txs = <<>>
    /\ proc = IdleProc
    /\ log = <<>>
    /\ added = (RootId :> <<>>)
    /\ modelStructsMap = NoModelStructs
    /\ handles = <<>>
    /\ model = ZeroModel
    /\ setterCalls = 0
    /\ pending = NoPending
    /\ lastCall = NoCall

\* ---------------------------------------- condition setters (SpecCond)
QA == StrV("a = ?")
QB == StrV("b = ?")
ArgsA == <<IntV(1)>>
ArgsB == <<IntV(2)>>
\* gorm.Expr("sum(x) > ?", 3)
HavingExpr == ExprV("sum(x) > ?", <<IntV(3)>>)

\* the calls explored in SpecCond
CondWhere ==
    \E r \in DOMAIN sessions, c \in {Cond(QA, ArgsA), Cond(QB, ArgsB)} :
        Cardinality(DOMAIN sessions) < MaxSessions /\ RepoWhere(r, c.query, c.args)

CondOr ==
    \E r \in DOMAIN sessions :
        Cardinality(DOMAIN sessions) < MaxSessions /\ RepoOr(r, QA, ArgsA)

CondNot ==
    \E r \in DOMAIN sessions :
        Cardinality(DOMAIN sessions) < MaxSessions /\ RepoNot(r, QA, ArgsA)

\* Having is given an expression, or a text and its arguments
CondHaving ==
    \E r \in DOMAIN sessions, c \in {Cond(HavingExpr, <<>>), Cond(QA, ArgsA)} :
        Cardinality(DOMAIN sessions) < MaxSessions /\ RepoHaving(r, c.query, c.args)

CondJoins ==
    \E r \in DOMAIN sessions :
        Cardinality(DOMAIN sessions) < MaxSessions
        /\ RepoJoins(r, "JOIN t ON t.id = ?", ArgsA)

NextCond == CondWhere \/ CondOr \/ CondNot \/ CondHaving \/ CondJoins

SpecCond == Init /\ [][NextCond]_vars

\* ------------------------------------------------ claims on the setters
CondOps == {"Where", "Or", "Not", "Having", "Joins"}

\* the list of a view that a condition setter appends to
ListOf(v, op) ==
    CASE op = "Where" -> v.search.whereConditions
      [] op = "Or" -> v.search.orConditions
      [] op = "Not" -> v.search.notConditions
      [] op = "Having" -> v.search.havingConditions
      [] op = "Joins" -> v.search.joinConditions

\* the (query, args) pair a call was given
Passed(c) == Cond(c.query, c.args)

\* the pair a call contributes: what it was given, an expression given to
\* Having being replaced by the expression's own text and arguments
Contributed(c) ==
    IF c.op = "Having" /\ c.query.t = "expr" THEN Cond(StrV(c.query.s), c.query.a)
    ELSE Passed(c)

\* the calls of setter op along the chain that built session id, in order
CallsOf(id, op) == SelectSeq(id, LAMBDA c : c.op = op)

Children(p) == {c \in DOMAIN sessions : c # RootId /\ Receiver(c) = p}

\* C3 (as claimed): sibling isolation.  Every session built by a condition
\* setter holds, in each of the five lists, exactly the conditions of the
\* session it was called on, followed by its own condition in the list of its
\* setter, whatever other calls were made on that receiver afterwards.
C3_SiblingIsolation ==
    \A a \in DOMAIN sessions \ {RootId} :
        \A op \in CondOps :
            ListOf(View(a), op) =
                IF LastCallOf(a).op = op
                THEN Append(ListOf(View(Receiver(a)), op), Contributed(LastCallOf(a)))
                ELSE ListOf(View(Receiver(a)), op)

\* C4 (as claimed): for any sequence of Where, Or, Not, Having and Joins
\* calls chained from the root, each of the five lists of the final session
\* holds exactly the pairs of the calls of its own setter, in call order,
\* with nothing replaced or dropped, and the root carries no condition.  The
\* pair of a call is the (query, args) it was passed; an expression passed
\* to Having is counted as the text and arguments it stands for, which is
\* the reading that asks least of the code.
C4_ListsHoldPassedPairs ==
    /\ sessions[RootId].searchIsNil
    /\ \A n \in DOMAIN sessions :
           \A op \in CondOps :
               ListOf(View(n), op) =
                   [i \in 1..Len(CallsOf(n, op)) |-> Contributed(CallsOf(n, op)[i])]

\* --------------------------------------- every chain call (SpecChain)
ChainRoom == Cardinality(DOMAIN sessions) < MaxChainSessions

ChainWhere == \E r \in DOMAIN sessions : ChainRoom /\ RepoWhere(r, QA, ArgsA)
ChainOr == \E r \in DOMAIN sessions : ChainRoom /\ RepoOr(r, QA, ArgsA)
ChainNot == \E r \in DOMAIN sessions : ChainRoom /\ RepoNot(r, QA, ArgsA)
ChainHaving == \E r \in DOMAIN sessions : ChainRoom /\ RepoHaving(r, QA, ArgsA)
ChainJoins ==
    \E r \in DOMAIN sessions : ChainRoom /\ RepoJoins(r, "JOIN t ON t.id = ?", ArgsA)
ChainOrder ==
    \E r \in DOMAIN sessions,
       o \in {<<StrV("name"), <<>>>>, <<StrV("age desc"), <<TRUE>>>>} :
        ChainRoom /\ RepoOrder(r, o[1], o[2])
ChainLimit == \E r \in DOMAIN sessions : ChainRoom /\ RepoLimit(r, IntV(10))
ChainOffset == \E r \in DOMAIN sessions : ChainRoom /\ RepoOffset(r, IntV(5))
ChainSelect ==
    \E r \in DOMAIN sessions : ChainRoom /\ RepoSelect(r, StrV("name"), <<>>)
ChainOmit == \E r \in DOMAIN sessions : ChainRoom /\ RepoOmit(r, <<"age">>)
ChainGroup == \E r \in DOMAIN sessions : ChainRoom /\ RepoGroup(r, "name")
ChainPreload ==
    \E r \in DOMAIN sessions : ChainRoom /\ RepoPreload(r, "Orders", <<StrV("paid")>>)
ChainUnscoped == \E r \in DOMAIN sessions : ChainRoom /\ RepoUnscoped(r)
ChainAttrs == \E r \in DOMAIN sessions : ChainRoom /\ RepoAttrs(r, StrV("attrs"))
ChainAssign == \E r \in DOMAIN sessions : ChainRoom /\ RepoAssign(r, StrV("assign"))
ChainRaw ==
    \E r \in DOMAIN sessions : ChainRoom /\ RepoRaw(r, "SELECT 1 WHERE x = ?", ArgsB)
ChainTable == \E r \in DOMAIN sessions : ChainRoom /\ RepoTable(r, "users")
ChainModel == \E r \in DOMAIN sessions : ChainRoom /\ RepoModel(r, StrV("&user"))

NextChain ==
    \/ ChainWhere \/ ChainOr \/ ChainNot \/ ChainHaving \/ ChainJoins
    \/ ChainOrder \/ ChainLimit \/ ChainOffset \/ ChainSelect \/ ChainOmit
    \/ ChainGroup \/ ChainPreload \/ ChainUnscoped \/ ChainAttrs \/ ChainAssign
    \/ ChainRaw \/ ChainTable \/ ChainModel

SpecChain == Init /\ [][NextChain]_vars

\* C1: a chain call leaves its receiver as it was: the Search the receiver
\* observes (every condition list, limit, offset, group, table name, flags,
\* and whether it has a Search at all) and its bound value are the same
\* before and after the call that returned the new session.
C1_ReceiverUnchanged ==
    [][\A n \in DOMAIN sessions' \ DOMAIN sessions :
          /\ Receiver(n) \in DOMAIN sessions
          /\ ViewIn(sessions', arrays', Receiver(n)) = View(Receiver(n))]_vars

\* a call was made on a session that already held conditions and a bound
\* value, and returned a session that holds one more condition
C1_Witness ==
    \E n \in DOMAIN sessions :
        /\ Len(n) >= 3
        /\ LastCallOf(n).op = "Where"
        /\ View(Receiver(n)).value # NilV
        /\ Len(View(Receiver(n)).search.whereConditions) >= 1
        /\ Len(View(n).search.whereConditions)
               = Len(View(Receiver(n)).search.whereConditions) + 1

\* ------------------------------- Search objects on their own (SpecSearch)
\* the Search that Clone installs on a session that had none
FreshSearch ==
    [ZeroSearch EXCEPT !.limit = IntV(-1), !.offset = IntV(-1), !.db = RootId]

InitSearch ==
    /\ sessions = (RootId :> OpenSession)
    /\ arrays = [x \in {} |-> <<>>]
    /\ searches = <<FreshSearch>>
    /\ txs = <<>>
    /\ proc = IdleProc
    /\ log = <<>>
    /\ added = (RootId :> <<>>)
    /\ modelStructsMap = NoModelStructs
    /\ handles = <<>>
    /\ model = ZeroModel
    /\ setterCalls = 0
    /\ pending = NoPending
    /\ lastCall = NoCall

\* the array the next reallocating append creates
FreshArr == <<"heap", Cardinality(DOMAIN arrays) + 1>>

\* a setter called on the Search object i itself; res is what it left
InPlace(i, res) ==
    /\ DOMAIN res.a # DOMAIN arrays => Cardinality(DOMAIN arrays) < MaxArrays
    /\ searches' = [searches EXCEPT ![i] = res.s]
    /\ arrays' = res.a
    /\ UNCHANGED <<sessions, txs, proc, log, added, modelStructsMap, lastCall, handles, model, setterCalls, pending>>

\* c := s.clone()
ObjClone ==
    \E i \in DOMAIN searches :
        /\ Len(searches) < MaxSearches
        /\ searches' = Append(searches, SearchClone(searches[i]))
        /\ UNCHANGED <<sessions, arrays, txs, proc, log, added, modelStructsMap, lastCall, handles, model, setterCalls, pending>>

ObjWhere ==
    \E i \in DOMAIN searches, c \in {Cond(QA, ArgsA), Cond(QB, ArgsB)} :
        /\ searches[i].whereConditions.len < MaxLen
        /\ InPlace(i, SearchWhere(searches[i], c.query, c.args, arrays, FreshArr))

ObjOrder ==
    \E i \in DOMAIN searches,
       o \in {<<StrV("name"), <<>>>>, <<StrV("age desc"), <<TRUE>>>>} :
        /\ searches[i].orders.len < MaxLen
        /\ InPlace(i, SearchOrder(searches[i], o[1], o[2], arrays, FreshArr))

ObjOmit ==
    \E i \in DOMAIN searches :
        InPlace(i, SearchOmit(searches[i], <<"age">>, arrays))

ObjPreload ==
    \E i \in DOMAIN searches, c \in {<<>>, <<StrV("paid")>>} :
        InPlace(i, SearchPreload(searches[i], "Orders", c, arrays))

NextSearch == ObjClone \/ ObjWhere \/ ObjOrder \/ ObjOmit \/ ObjPreload

SpecSearch == InitSearch /\ [][NextSearch]_vars

\* C2 (as claimed): clone and source never alias storage.  A setter called
\* on one Search object changes that object only: every other Search object
\* (its clone, or the source it was cloned from) observes the same contents
\* in every list before and after the call.
C2_ClonesNeverAlias ==
    [][\A j \in DOMAIN searches :
          (j \in DOMAIN searches' /\ searches'[j] = searches[j])
              => SearchView(searches'[j], arrays') = SearchView(searches[j], arrays)]_vars

\* ------------------------------------------- error accumulation (SpecErr)
E1 == Single("e1")
E2 == Single("e2")
E3 == Single("e3")

\* r.AddError(err), err being nil, a plain error or the not-found sentinel
ErrAddError ==
    \E id \in DOMAIN sessions, e \in {NoError, E1, E2, E3, ErrRecordNotFound} :
        /\ Len(added[id]) < MaxAdds
        /\ sessions' = [sessions EXCEPT ![id] = AddError(sessions[id], e).r]
        /\ log' = log \o AddError(sessions[id], e).emit
        /\ added' = [added EXCEPT ![id] = Append(added[id], e)]
        /\ lastCall' = [NoCall EXCEPT !.op = "AddError", !.recv = id,
                                      !.result = AddError(sessions[id], e).ret]
        /\ UNCHANGED <<arrays, searches, txs, proc, modelStructsMap, handles, model, setterCalls, pending>>

\* r.LogMode(enable): sets the receiver's own mode, 2 (verbose) or 1 (off)
ErrLogMode ==
    \E id \in DOMAIN sessions, enable \in BOOLEAN :
        /\ sessions' = [sessions EXCEPT ![id].logMode = IF enable THEN 2 ELSE 1]
        /\ lastCall' = [NoCall EXCEPT !.op = "LogMode", !.recv = id]
        /\ UNCHANGED <<arrays, searches, txs, proc, log, added, modelStructsMap, handles, model, setterCalls, pending>>

NextErr == ErrAddError \/ ErrLogMode

SpecErr == Init /\ [][NextErr]_vars

\* the non-nil errors of a call history, each kept at its first occurrence
RECURSIVE Distinct(_)
Distinct(h) ==
    IF h = <<>> THEN <<>>
    ELSE LET d == Distinct(SubSeq(h, 1, Len(h) - 1))
             e == h[Len(h)]
         IN IF IsNilErr(e) \/ InSeq(e.errs[1], d) THEN d ELSE Append(d, e.errs[1])

\* C8 (as claimed): errors accumulate.  Every non-nil error handed to
\* AddError on a session, the not-found sentinel included, is still
\* enumerated by GetErrors after every later AddError call on that session.
C8_EarlierErrorsStayEnumerable ==
    \A id \in DOMAIN sessions :
        \A i \in 1..Len(added[id]) :
            ~IsNilErr(added[id][i])
                => InSeq(added[id][i].errs[1], GetErrors(sessions[id]))

\* C9: after AddError calls with nil, repeated and distinct errors other
\* than the not-found sentinel, GetErrors enumerates exactly the distinct
\* errors in the order they were first added; one distinct error is stored
\* as itself, two or more as one aggregate, and none leaves the slot nil.
C9_DistinctErrorsEnumerated ==
    \A id \in DOMAIN sessions :
        ~InSeq(ErrRecordNotFound, added[id]) =>
            LET es == Distinct(added[id])
            IN /\ GetErrors(sessions[id]) = es
               /\ Len(es) = 0 => sessions[id].err = NoError
               /\ Len(es) = 1 => sessions[id].err = Single(es[1])
               /\ Len(es) >= 2 => sessions[id].err = Aggregate(es)

\* three distinct errors, a repeated one and a nil were added, and the
\* slot holds the aggregate of the three
C9_Witness ==
    \E id \in DOMAIN sessions :
        /\ added[id] = <<E1, E2, E1, E3>> \/ added[id] = <<E2, NoError, E1, E2>>
        /\ sessions[id].err.agg
        /\ Len(GetErrors(sessions[id])) >= 2

\* C10: RecordNotFound() is true exactly when the not-found sentinel was
\* recorded on the session, alone or next to other errors, and stays true
\* whatever is added afterwards.
C10_RecordNotFoundIffRecorded ==
    \A id \in DOMAIN sessions :
        RecordNotFound(sessions[id]) <=> InSeq(ErrRecordNotFound, added[id])

\* the sentinel was recorded, other errors were added after it, and it is
\* now a member of an aggregate
C10_Witness ==
    \E id \in DOMAIN sessions :
        /\ Len(added[id]) >= 3
        /\ added[id][1] = ErrRecordNotFound
        /\ sessions[id].err.agg
        /\ Len(GetErrors(sessions[id])) >= 3
        /\ RecordNotFound(sessions[id])

\* ------------------------------------------------ transactions (SpecTx)
\* what the executor (database/sql) answers
EBegin == Single("driver: begin failed")
ECommit == Single("driver: commit failed")
ERollback == Single("driver: rollback failed")
ErrTxDone == Single("sql: transaction has already been committed or rolled back")
EFn == Single("fn failed")

\* db.Begin() on a connection: a new open transaction, or on failure the
\* zero-value transaction with the driver's error
ExecBegin(ts, ok) ==
    IF ok THEN [txs |-> Append(ts, [status |-> "open"]),
                db |-> [kind |-> "tx", id |-> Len(ts) + 1], err |-> NoError]
    ELSE [txs |-> ts, db |-> [kind |-> "niltx", id |-> 0], err |-> EBegin]

\* tx.Commit(): a finished transaction answers ErrTxDone; an open one is
\* finished either way, committed or not
ExecCommit(ts, k, ok) ==
    IF ts[k].status = "open"
    THEN [txs |-> [ts EXCEPT ![k].status = IF ok THEN "committed" ELSE "aborted"],
          err |-> IF ok THEN NoError ELSE ECommit]
    ELSE [txs |-> ts, err |-> ErrTxDone]

\* tx.Rollback()
ExecRollback(ts, k, ok) ==
    IF ts[k].status = "open"
    THEN [txs |-> [ts EXCEPT ![k].status = IF ok THEN "rolledback" ELSE "aborted"],
          err |-> IF ok THEN NoError ELSE ERollback]
    ELSE [txs |-> ts, err |-> ErrTxDone]

\* repository.Begin on the record r, the clone being named id: the clone,
\* the executor's transactions, the log entries and the driver's answer.
\* Every *sql.DB passes the test for an executor that can begin, the nil
\* pointer a failed sql.Open left included: Begin on that one panics.
BeginRes(r, id, ok, ts) ==
    LET c == Clone(r, id)
    IN IF c.db.kind = "nildb"
       THEN [sess |-> c, txs |-> ts, emit |-> <<>>, begins |-> 1,
             result |-> NoError, panics |-> TRUE]
       ELSE IF c.db.kind = "db"
       THEN LET b == ExecBegin(ts, ok)
                ae == AddError([c EXCEPT !.db = b.db], b.err)
            IN [sess |-> ae.r, txs |-> b.txs, emit |-> ae.emit, begins |-> 1,
                result |-> b.err, panics |-> FALSE]
       ELSE LET ae == AddError(c, ErrCantStartTransaction)
            IN [sess |-> ae.r, txs |-> ts, emit |-> ae.emit, begins |-> 0,
                result |-> ErrCantStartTransaction, panics |-> FALSE]

\* (mutant) Commit that does nothing on a session without a transaction
CommitResSilent(r, ok, ts) ==
    IF r.db.kind = "tx"
    THEN LET x == ExecCommit(ts, r.db.id, ok)
             ae == AddError(r, x.err)
         IN [sess |-> ae.r, txs |-> x.txs, emit |-> ae.emit, calls |-> 1,
             result |-> x.err]
    ELSE [sess |-> r, txs |-> ts, emit |-> <<>>, calls |-> 0, result |-> NoError]

\* repository.Commit on the record r, in place: only a non-nil *sql.Tx
\* passes the test, anything else records ErrInvalidTransaction
CommitRes(r, ok, ts) ==
    IF r.db.kind = "tx"
    THEN LET x == ExecCommit(ts, r.db.id, ok)
             ae == AddError(r, x.err)
         IN [sess |-> ae.r, txs |-> x.txs, emit |-> ae.emit, calls |-> 1,
             result |-> x.err]
    ELSE LET ae == AddError(r, ErrInvalidTransaction)
         IN [sess |-> ae.r, txs |-> ts, emit |-> ae.emit, calls |-> 0,
             result |-> ErrInvalidTransaction]

\* repository.Rollback on the record r, in place
RollbackRes(r, ok, ts) ==
    IF r.db.kind = "tx"
    THEN LET x == ExecRollback(ts, r.db.id, ok)
             ae == AddError(r, x.err)
         IN [sess |-> ae.r, txs |-> x.txs, emit |-> ae.emit, calls |-> 1,
             result |-> x.err]
    ELSE LET ae == AddError(r, ErrInvalidTransaction)
         IN [sess |-> ae.r, txs |-> ts, emit |-> ae.emit, calls |-> 0,
             result |-> ErrInvalidTransaction]

BeginId(r) == NewId(r, "Begin", IntV(Len(txs) + 1), <<>>)

\* (mutant) Begin that installs the transaction on the receiver as well
RepoBeginInPlace(r, ok) ==
    LET id == BeginId(r)
        b == BeginRes(sessions[r], id, ok, txs)
    IN /\ id \notin DOMAIN sessions
       /\ sessions' = (id :> b.sess) @@ [sessions EXCEPT ![r].db = b.sess.db]
       /\ txs' = b.txs
       /\ log' = log \o b.emit
       /\ lastCall' = [NoCall EXCEPT !.op = "Begin", !.recv = r,
                                     !.begins = b.begins, !.result = b.result]
       /\ UNCHANGED <<arrays, searches, proc, added, modelStructsMap, handles, model, setterCalls, pending>>

\* tx := r.Begin(); a panic returns no session
RepoBegin(r, ok) ==
    LET id == BeginId(r)
        b == BeginRes(sessions[r], id, ok, txs)
    IN /\ id \notin DOMAIN sessions
       /\ sessions' = IF b.panics THEN sessions ELSE (id :> b.sess) @@ sessions
       /\ txs' = b.txs
       /\ log' = log \o b.emit
       /\ lastCall' = [NoCall EXCEPT !.op = "Begin", !.recv = r,
                                     !.begins = b.begins, !.result = b.result,
                                     !.out = IF b.panics THEN StrV("panic") ELSE NilV]
       /\ UNCHANGED <<arrays, searches, proc, added, modelStructsMap, handles, model, setterCalls, pending>>

\* (mutant) Commit that works on a clone, as the chain calls do
RepoCommitOnClone(r, ok) ==
    LET id == NewId(r, "Commit", NilV, <<>>)
        c == CommitRes(Clone(sessions[r], id), ok, txs)
    IN /\ id \notin DOMAIN sessions
       /\ sessions' = (id :> c.sess) @@ sessions
       /\ txs' = c.txs
       /\ log' = log \o c.emit
       /\ lastCall' = [NoCall EXCEPT !.op = "Commit", !.recv = r,
                                     !.commits = c.calls, !.result = c.result]
       /\ UNCHANGED <<arrays, searches, proc, added, modelStructsMap, handles, model, setterCalls, pending>>

\* r.Commit()
RepoCommit(r, ok) ==
    LET c == CommitRes(sessions[r], ok, txs)
    IN /\ sessions' = [sessions EXCEPT ![r] = c.sess]
       /\ txs' = c.txs
       /\ log' = log \o c.emit
       /\ lastCall' = [NoCall EXCEPT !.op = "Commit", !.recv = r,
                                     !.commits = c.calls, !.result = c.result]
       /\ UNCHANGED <<arrays, searches, proc, added, modelStructsMap, handles, model, setterCalls, pending>>

\* r.Rollback()
RepoRollback(r, ok) ==
    LET c == RollbackRes(sessions[r], ok, txs)
    IN /\ sessions' = [sessions EXCEPT ![r] = c.sess]
       /\ txs' = c.txs
       /\ log' = log \o c.emit
       /\ lastCall' = [NoCall EXCEPT !.op = "Rollback", !.recv = r,
                                     !.rollbacks = c.calls, !.result = c.result]
       /\ UNCHANGED <<arrays, searches, proc, added, modelStructsMap, handles, model, setterCalls, pending>>

\* no Transaction(fn) call is under way
NotInTransaction == proc.pc \in {"idle", "done"}

\* the executor is asked for an outcome only where it is consulted
Consulted(r, ok) == (sessions[r].db.kind = "tx" /\ txs[sessions[r].db.id].status = "open") \/ ok

TxBegin ==
    \E r \in DOMAIN sessions, ok \in BOOLEAN :
        /\ NotInTransaction
        /\ Cardinality(DOMAIN sessions) < MaxTxSessions
        /\ sessions[r].db.kind = "db" \/ ok
        /\ RepoBegin(r, ok)

TxCommit ==
    \E r \in DOMAIN sessions, ok \in BOOLEAN :
        /\ NotInTransaction
        /\ Len(log) < MaxLog
        /\ Consulted(r, ok)
        /\ RepoCommit(r, ok)

TxRollback ==
    \E r \in DOMAIN sessions, ok \in BOOLEAN :
        /\ NotInTransaction
        /\ Len(log) < MaxLog
        /\ Consulted(r, ok)
        /\ RepoRollback(r, ok)

\* ---- r.Transaction(fn), one step per call it makes
\* tx := db.Begin(); err = tx.Error(); a stored error ends the call with
\* the line "begin fail" printed.  A Begin that panics leaves Transaction
\* before the test of the error: nothing is printed.
TrBegin ==
    \E r \in DOMAIN sessions, ok \in BOOLEAN :
        LET id == BeginId(r)
            b == BeginRes(sessions[r], id, ok, txs)
            failed == ~b.panics /\ ~IsNilErr(b.sess.err)
        IN /\ NotInTransaction
           /\ Cardinality(DOMAIN sessions) < MaxTxSessions
           /\ sessions[r].db.kind = "db" \/ ok
           /\ id \notin DOMAIN sessions
           /\ sessions' = IF b.panics THEN sessions ELSE (id :> b.sess) @@ sessions
           /\ txs' = b.txs
           /\ log' = log \o b.emit
                     \o (IF failed THEN <<LogEntry("print: begin fail", b.sess.err)>>
                         ELSE <<>>)
           /\ lastCall' = [NoCall EXCEPT !.op = "Begin", !.recv = r,
                                         !.begins = b.begins, !.result = b.result,
                                         !.out = IF b.panics THEN StrV("panic") ELSE NilV]
           /\ proc' = IF b.panics
                      THEN [IdleProc EXCEPT !.pc = "panicked", !.recv = r,
                                            !.trace = <<"Begin", "panic">>]
                      ELSE [IdleProc EXCEPT
                                !.pc = IF failed THEN "return" ELSE "fn",
                                !.recv = r, !.tx = id, !.err = b.sess.err,
                                !.trace = <<"Begin">>, !.beginErr = b.sess.err]
           /\ UNCHANGED <<arrays, searches, added, modelStructsMap, handles, model, setterCalls, pending>>

\* (mutant) the result of fn is not looked at before committing
TrFnThenAlwaysCommit ==
    \E does \in {"nothing", "fails", "records"} :
        /\ proc.pc = "fn"
        /\ proc' = [proc EXCEPT !.pc = "commit",
                                !.trace = Append(proc.trace, "fn"),
                                !.fnRet = IF does = "fails" THEN EFn ELSE NoError,
                                !.err = IF does = "fails" THEN EFn ELSE NoError]
        /\ lastCall' = [NoCall EXCEPT !.op = "fn", !.recv = proc.tx]
        /\ UNCHANGED <<sessions, arrays, searches, txs, log, added, modelStructsMap, handles, model, setterCalls, pending>>

\* err = fc(tx): fn returns nil, returns an error, or records an error on
\* the transaction session with AddError and returns nil
TrFn ==
    \E does \in {"nothing", "fails", "records"} :
        LET ae == AddError(sessions[proc.tx], E1)
            ret == IF does = "fails" THEN EFn ELSE NoError
        IN /\ proc.pc = "fn"
           /\ sessions' = IF does = "records"
                          THEN [sessions EXCEPT ![proc.tx] = ae.r] ELSE sessions
           /\ log' = log \o (IF does = "records" THEN ae.emit ELSE <<>>)
                     \o (IF ~IsNilErr(ret) THEN <<LogEntry("print: success", NoError)>>
                         ELSE <<>>)
           /\ proc' = [proc EXCEPT !.pc = IF IsNilErr(ret) THEN "commit" ELSE "return",
                                   !.trace = Append(proc.trace, "fn"),
                                   !.fnRet = ret, !.err = ret]
           /\ lastCall' = [NoCall EXCEPT !.op = "fn", !.recv = proc.tx, !.result = ret]
           /\ UNCHANGED <<arrays, searches, txs, added, modelStructsMap, handles, model, setterCalls, pending>>

\* (mutant) the deferred function rolls back whenever fn did not return
TrPanicRollingBack ==
    \E does \in {"nothing", "records"}, ok \in BOOLEAN :
        LET ae == AddError(sessions[proc.tx], E1)
            s == IF does = "records" THEN ae.r ELSE sessions[proc.tx]
            c == RollbackRes(s, ok, txs)
        IN /\ proc.pc = "fn"
           /\ Consulted(proc.tx, ok)
           /\ sessions' = [sessions EXCEPT ![proc.tx] = c.sess]
           /\ txs' = c.txs
           /\ log' = log \o (IF does = "records" THEN ae.emit ELSE <<>>) \o c.emit
           /\ proc' = [proc EXCEPT !.pc = "panicked",
                                   !.trace = proc.trace \o <<"fn", "panic", "Rollback">>]
           /\ lastCall' = [NoCall EXCEPT !.op = "Rollback", !.recv = proc.tx,
                                         !.rollbacks = c.calls, !.result = c.result]
           /\ UNCHANGED <<arrays, searches, added, modelStructsMap, handles, model, setterCalls, pending>>

\* fc(tx) panics, possibly after recording an error on the transaction
\* session: err is never assigned, the deferred function finds it nil and
\* does not roll back, and the panic leaves Transaction
TrPanic ==
    \E does \in {"nothing", "records"} :
        LET ae == AddError(sessions[proc.tx], E1)
        IN /\ proc.pc = "fn"
           /\ sessions' = IF does = "records"
                          THEN [sessions EXCEPT ![proc.tx] = ae.r] ELSE sessions
           /\ log' = log \o (IF does = "records" THEN ae.emit ELSE <<>>)
           /\ proc' = [proc EXCEPT !.pc = "panicked",
                                   !.trace = proc.trace \o <<"fn", "panic">>]
           /\ lastCall' = [NoCall EXCEPT !.op = "panic", !.recv = proc.tx]
           /\ UNCHANGED <<arrays, searches, txs, added, modelStructsMap, handles, model, setterCalls, pending>>

\* err = tx.Commit().Error()
TrCommit ==
    \E ok \in BOOLEAN :
        LET c == CommitRes(sessions[proc.tx], ok, txs)
        IN /\ proc.pc = "commit"
           /\ Consulted(proc.tx, ok)
           /\ sessions' = [sessions EXCEPT ![proc.tx] = c.sess]
           /\ txs' = c.txs
           /\ log' = log \o c.emit
                     \o <<IF IsNilErr(c.sess.err) THEN LogEntry("print: success", NoError)
                          ELSE LogEntry("print: commit fail", c.sess.err)>>
           /\ lastCall' = [NoCall EXCEPT !.op = "Commit", !.recv = proc.tx,
                                         !.commits = c.calls, !.result = c.result]
           /\ proc' = [proc EXCEPT !.pc = "return",
                                   !.trace = Append(proc.trace, "Commit"),
                                   !.commitErr = c.sess.err, !.err = c.sess.err]
           /\ UNCHANGED <<arrays, searches, added, modelStructsMap, handles, model, setterCalls, pending>>

\* return err, the deferred function rolling back when err is not nil
TrReturn ==
    \E ok \in BOOLEAN :
        LET c == RollbackRes(sessions[proc.tx], ok, txs)
            rolls == ~IsNilErr(proc.err)
        IN /\ proc.pc = "return"
           /\ IF rolls THEN Consulted(proc.tx, ok) ELSE ok
           /\ sessions' = IF rolls THEN [sessions EXCEPT ![proc.tx] = c.sess]
                          ELSE sessions
           /\ txs' = IF rolls THEN c.txs ELSE txs
           /\ log' = IF rolls THEN log \o c.emit ELSE log
           /\ lastCall' = IF rolls
                          THEN [NoCall EXCEPT !.op = "Rollback", !.recv = proc.tx,
                                              !.rollbacks = c.calls,
                                              !.result = c.result]
                          ELSE [NoCall EXCEPT !.op = "return", !.recv = proc.recv]
           /\ proc' = [proc EXCEPT !.pc = "done",
                                   !.trace = IF rolls THEN Append(proc.trace, "Rollback")
                                             ELSE proc.trace,
                                   !.ret = proc.err]
           /\ UNCHANGED <<arrays, searches, added, modelStructsMap, handles, model, setterCalls, pending>>

NextTx ==
    \/ TxBegin \/ TxCommit \/ TxRollback
    \/ TrBegin \/ TrFn \/ TrPanic \/ TrCommit \/ TrReturn

SpecTx == Init /\ [][NextTx]_vars

\* position of the first occurrence of ev in a trace, 0 when absent
First(tr, ev) ==
    IF InSeq(ev, tr) THEN CHOOSE i \in 1..Len(tr) : tr[i] = ev /\ \A j \in 1..(i - 1) : tr[j] # ev
    ELSE 0

Count(tr, ev) == Cardinality({i \in 1..Len(tr) : tr[i] = ev})

\* C5: the protocol of Transaction(fn).  fn is invoked at most once, and
\* only after Begin returned a session with no stored error; Commit is
\* attempted only after fn returned nil; when fn returns an error Rollback
\* is attempted and Commit never is; the call returns the first error met:
\* the one stored after Begin, else the one fn returned, else the one the
\* transaction session holds after Commit.
C5_TransactionProtocol ==
    LET tr == proc.trace
    IN /\ Count(tr, "fn") <= 1
       /\ InSeq("fn", tr) =>
            /\ tr[1] = "Begin"
            /\ IsNilErr(proc.beginErr)
       /\ InSeq("Commit", tr) =>
            /\ InSeq("fn", tr)
            /\ First(tr, "fn") < First(tr, "Commit")
            /\ IsNilErr(proc.fnRet)
       /\ ~IsNilErr(proc.fnRet) => ~InSeq("Commit", tr)
       /\ (proc.pc = "done" /\ ~IsNilErr(proc.fnRet)) => InSeq("Rollback", tr)
       /\ proc.pc = "done" =>
            proc.ret = IF ~IsNilErr(proc.beginErr) THEN proc.beginErr
                       ELSE IF ~IsNilErr(proc.fnRet) THEN proc.fnRet
                       ELSE proc.commitErr

\* a Transaction call whose fn returned an error has returned that error
\* after rolling the open transaction back, without a Commit
C5_Witness ==
    /\ proc.pc = "done"
    /\ proc.trace = <<"Begin", "fn", "Rollback">>
    /\ proc.ret = EFn
    /\ sessions[proc.tx].db.kind = "tx"
    /\ txs[sessions[proc.tx].db.id].status = "rolledback"

\* C6: Commit and Rollback on a session whose executor is a plain
\* connection or the zero-value transaction of a failed Begin record the
\* invalid-transaction error and leave the executor alone; on a genuine
\* transaction they call the executor's commit (rollback) exactly once and
\* record its answer.
C6_CommitRollbackNeedTransaction ==
    [][lastCall'.op \in {"Commit", "Rollback"} =>
          LET r == lastCall'.recv
              calls == lastCall'.commits + lastCall'.rollbacks
          IN IF sessions[r].db.kind = "tx"
             THEN /\ calls = 1
                  /\ lastCall'.op = "Commit" => lastCall'.commits = 1
                  /\ lastCall'.op = "Rollback" => lastCall'.rollbacks = 1
                  /\ lastCall'.result = IF txs[sessions[r].db.id].status = "open"
                                        THEN lastCall'.result ELSE ErrTxDone
                  /\ IF IsNilErr(lastCall'.result)
                     THEN sessions'[r].err = sessions[r].err
                     ELSE InSeq(lastCall'.result.errs[1], GetErrors(sessions'[r]))
             ELSE /\ calls = 0
                  /\ txs' = txs
                  /\ InSeq(ErrInvalidTransaction.errs[1], GetErrors(sessions'[r]))]_vars

\* Commit or Rollback was called on the session a failed Begin returned,
\* which holds the zero-value transaction
C6_Witness ==
    /\ lastCall.op \in {"Commit", "Rollback"}
    /\ sessions[lastCall.recv].db.kind = "niltx"
    /\ lastCall.commits + lastCall.rollbacks = 0
    /\ InSeq(ErrInvalidTransaction.errs[1], GetErrors(sessions[lastCall.recv]))
    /\ InSeq(EBegin.errs[1], GetErrors(sessions[lastCall.recv]))

\* C7: Begin returns a new session and leaves the receiver as it was, its
\* executor and error slot included.  When the receiver's executor is a
\* connection and the driver starts a transaction, the new session's
\* executor is that new, open transaction; when the receiver's executor
\* cannot start one (it is a transaction already), the new session records
\* the cannot-start-transaction error and no transaction is started.
C7_BeginReturnsTransactionSession ==
    [][\A n \in DOMAIN sessions' \ DOMAIN sessions :
          LastCallOf(n).op = "Begin" =>
              LET r == Receiver(n)
              IN /\ r \in DOMAIN sessions
                 /\ sessions'[r] = sessions[r]
                 /\ IF sessions[r].db.kind = "db"
                    THEN IsNilErr(lastCall'.result) =>
                            /\ Len(txs') = Len(txs) + 1
                            /\ txs'[Len(txs')].status = "open"
                            /\ sessions'[n].db = [kind |-> "tx", id |-> Len(txs')]
                            /\ sessions'[n].err = sessions[r].err
                    ELSE /\ txs' = txs
                         /\ sessions'[n].db = sessions[r].db
                         /\ InSeq(ErrCantStartTransaction.errs[1],
                                  GetErrors(sessions'[n]))]_vars

\* Begin was called on a connection and on the transaction session that
\* call returned
C7_Witness ==
    \E n \in DOMAIN sessions :
        /\ Len(n) = 2
        /\ LastCallOf(n).op = "Begin"
        /\ sessions[Receiver(n)].db.kind = "tx"
        /\ sessions[RootId].db.kind = "db"
        /\ InSeq(ErrCantStartTransaction.errs[1], GetErrors(sessions[n]))

\* the transaction a Transaction(fn) call started has been committed
\* (Begin installed a transaction of its own in the session it returned)
Committed(tx, recv) ==
    /\ tx \in DOMAIN sessions
    /\ sessions[tx].db.kind = "tx"
    /\ sessions[tx].db # sessions[recv].db
    /\ txs[sessions[tx].db.id].status = "committed"

\* C31: Transaction(fn) returns nil if and only if the transaction it
\* started was committed; whenever it returns an error the transaction has
\* not been committed, also when fn recorded an error on the transaction
\* session with AddError and returned nil.
C31_NilIffCommitted ==
    proc.pc = "done" => (IsNilErr(proc.ret) <=> Committed(proc.tx, proc.recv))

\* C32: when fn panics inside Transaction(fn) after Begin succeeded, neither
\* Commit nor Rollback is invoked on the transaction before the panic
\* leaves the call: the deferred function sees a nil error, and the
\* transaction stays open.
C32_PanicLeavesTransactionOpen ==
    (proc.pc = "panicked" /\ InSeq("fn", proc.trace)) =>
        /\ proc.trace = <<"Begin", "fn", "panic">>
        /\ IsNilErr(proc.err)
        /\ lastCall.commits = 0 /\ lastCall.rollbacks = 0
        /\ sessions[proc.tx].db.kind = "tx"
        /\ txs[sessions[proc.tx].db.id].status = "open"

\* fn recorded an error on the transaction session and panicked; the
\* transaction Begin opened on the root connection is still open
C32_Witness ==
    /\ proc.pc = "panicked"
    /\ proc.recv = RootId
    /\ sessions[proc.tx].err = E1
    /\ sessions[proc.tx].db.kind = "tx"
    /\ txs[sessions[proc.tx].db.id].status = "open"

\* ------------------- Commit and Rollback work in place (SpecInPlace)
MaxInPlaceSessions == 3
MaxInPlaceLog == 2

IpRoom == Cardinality(DOMAIN sessions) < MaxInPlaceSessions

IpBegin ==
    \E r \in DOMAIN sessions, ok \in BOOLEAN :
        /\ IpRoom
        /\ sessions[r].db.kind = "db" \/ ok
        /\ RepoBegin(r, ok)
IpCommit ==
    \E r \in DOMAIN sessions, ok \in BOOLEAN :
        /\ Len(log) < MaxInPlaceLog
        /\ Consulted(r, ok)
        /\ RepoCommit(r, ok)
IpRollback ==
    \E r \in DOMAIN sessions, ok \in BOOLEAN :
        /\ Len(log) < MaxInPlaceLog
        /\ Consulted(r, ok)
        /\ RepoRollback(r, ok)
IpWhere == \E r \in DOMAIN sessions : IpRoom /\ RepoWhere(r, QA, ArgsA)
IpAddError ==
    \E r \in DOMAIN sessions :
        /\ Len(log) < MaxInPlaceLog
        /\ RepoAddError(r, E1)

NextInPlace == IpBegin \/ IpCommit \/ IpRollback \/ IpWhere \/ IpAddError

SpecInPlace == Init /\ [][NextInPlace]_vars

\* the session record holds the invalid-transaction error
Invalid(r) == InSeq(ErrInvalidTransaction.errs[1], GetErrors(r))

\* C34: Commit and Rollback return the receiver, not a clone: no session is
\* created, no other session changes, and the error of the call is recorded
\* in the receiver's own error slot.  After Commit or Rollback on a session
\* that holds no transaction the receiver holds the invalid-transaction
\* error, it keeps holding it, and every session cloned from a session that
\* holds it holds it as well.
C34_CommitRollbackInPlace ==
    [][/\ (lastCall'.op \in {"Commit", "Rollback"} /\ <<lastCall, log, txs>>' # <<lastCall, log, txs>>) =>
            LET r == lastCall'.recv
            IN /\ DOMAIN sessions' = DOMAIN sessions
               /\ \A s \in DOMAIN sessions \ {r} : sessions'[s] = sessions[s]
               /\ ~IsNilErr(lastCall'.result) =>
                      InSeq(lastCall'.result.errs[1], GetErrors(sessions'[r]))
               /\ sessions[r].db.kind # "tx" => Invalid(sessions'[r])
       /\ \A r \in DOMAIN sessions :
            Invalid(sessions[r]) =>
                /\ Invalid(sessions'[r])
                /\ \A n \in DOMAIN sessions' \ DOMAIN sessions :
                       Receiver(n) = r => Invalid(sessions'[n])]_vars

\* Commit or Rollback was called on the root, which holds a plain
\* connection, and a session cloned from the root afterwards by Where holds
\* the invalid-transaction error too
C34_Witness ==
    /\ sessions[RootId].db.kind = "db"
    /\ Invalid(sessions[RootId])
    /\ \E n \in DOMAIN sessions :
          /\ Len(n) = 1
          /\ LastCallOf(n).op = "Where"
          /\ Invalid(sessions[n])

\* ------------------------------ errors carried along a chain (SpecCarry)
MaxCarrySessions == 3
MaxCarryAdds == 1

CarryRoom == Cardinality(DOMAIN sessions) < MaxCarrySessions

\* the session at the end of the chain built so far
CarryEnd(r) == Children(r) = {}

\* an error is raised on the session the chain has reached; every error
\* but the sentinel is logged
CarryAddError ==
    \E r \in DOMAIN sessions, e \in {E1, ErrRecordNotFound} :
        Len(log) < MaxCarryAdds /\ CarryEnd(r) /\ RepoAddError(r, e)

CarryWhere == \E r \in DOMAIN sessions : CarryRoom /\ CarryEnd(r) /\ RepoWhere(r, QA, ArgsA)
CarryOr == \E r \in DOMAIN sessions : CarryRoom /\ CarryEnd(r) /\ RepoOr(r, QA, ArgsA)
CarryNot == \E r \in DOMAIN sessions : CarryRoom /\ CarryEnd(r) /\ RepoNot(r, QA, ArgsA)
CarryHaving == \E r \in DOMAIN sessions : CarryRoom /\ CarryEnd(r) /\ RepoHaving(r, QA, ArgsA)
CarryJoins ==
    \E r \in DOMAIN sessions : CarryRoom /\ CarryEnd(r) /\ RepoJoins(r, "JOIN t ON t.id = ?", ArgsA)
CarryOrder == \E r \in DOMAIN sessions : CarryRoom /\ CarryEnd(r) /\ RepoOrder(r, StrV("name"), <<>>)
CarryLimit == \E r \in DOMAIN sessions : CarryRoom /\ CarryEnd(r) /\ RepoLimit(r, IntV(10))
CarryOffset == \E r \in DOMAIN sessions : CarryRoom /\ CarryEnd(r) /\ RepoOffset(r, IntV(5))
CarrySelect ==
    \E r \in DOMAIN sessions : CarryRoom /\ CarryEnd(r) /\ RepoSelect(r, StrV("name"), <<>>)
CarryOmit == \E r \in DOMAIN sessions : CarryRoom /\ CarryEnd(r) /\ RepoOmit(r, <<"age">>)
CarryGroup == \E r \in DOMAIN sessions : CarryRoom /\ CarryEnd(r) /\ RepoGroup(r, "name")
CarryPreload ==
    \E r \in DOMAIN sessions : CarryRoom /\ CarryEnd(r) /\ RepoPreload(r, "Orders", <<StrV("paid")>>)
CarryUnscoped == \E r \in DOMAIN sessions : CarryRoom /\ CarryEnd(r) /\ RepoUnscoped(r)
CarryAttrs == \E r \in DOMAIN sessions : CarryRoom /\ CarryEnd(r) /\ RepoAttrs(r, StrV("attrs"))
CarryAssign == \E r \in DOMAIN sessions : CarryRoom /\ CarryEnd(r) /\ RepoAssign(r, StrV("assign"))
CarryRaw ==
    \E r \in DOMAIN sessions : CarryRoom /\ CarryEnd(r) /\ RepoRaw(r, "SELECT 1 WHERE x = ?", ArgsB)
CarryTable == \E r \in DOMAIN sessions : CarryRoom /\ CarryEnd(r) /\ RepoTable(r, "users")
CarryModel == \E r \in DOMAIN sessions : CarryRoom /\ CarryEnd(r) /\ RepoModel(r, StrV("&user"))
CarrySet == \E r \in DOMAIN sessions : CarryRoom /\ CarryEnd(r) /\ RepoSet(r, "k", IntV(1))
CarryNew == \E r \in DOMAIN sessions : CarryRoom /\ CarryEnd(r) /\ RepoNew(r)
\* Begin on a connection (the driver answering or failing) or on a session
\* that already holds a transaction
CarryBegin ==
    \E r \in DOMAIN sessions, ok \in BOOLEAN :
        CarryRoom /\ CarryEnd(r) /\ RepoBegin(r, ok)

NextCarry ==
    \/ CarryAddError
    \/ CarryWhere \/ CarryOr \/ CarryNot \/ CarryHaving \/ CarryJoins
    \/ CarryOrder \/ CarryLimit \/ CarryOffset \/ CarrySelect \/ CarryOmit
    \/ CarryGroup \/ CarryPreload \/ CarryUnscoped \/ CarryAttrs \/ CarryAssign
    \/ CarryRaw \/ CarryTable \/ CarryModel \/ CarrySet \/ CarryNew \/ CarryBegin

SpecCarry == Init /\ [][NextCarry]_vars

\* C11: a stored error is carried forward.  Every chainable call, and
\* Model, Table, Set, New and Begin, made on a session whose error slot
\* holds errors returns a session whose recorded errors include each of
\* them.
C11_StoredErrorCarriedForward ==
    [][\A n \in DOMAIN sessions' \ DOMAIN sessions :
          /\ Receiver(n) \in DOMAIN sessions
          /\ \A i \in 1..Len(GetErrors(sessions[Receiver(n)])) :
                 InSeq(GetErrors(sessions[Receiver(n)])[i], GetErrors(sessions'[n]))]_vars

\* the only error ever added was added on the root, and a session two
\* calls down the chain carries it
C11_Witness ==
    /\ Len(log) = 1 /\ log[1].err = E1
    /\ lastCall.op = "AddError" /\ lastCall.recv = RootId
    /\ \E n \in DOMAIN sessions :
          Len(n) = 2 /\ InSeq(E1.errs[1], GetErrors(sessions[n]))

\* ------------------------------ ad-hoc callback registration (SpecCallback)
MaxCbSessions == 4
MaxCbHandles == 1

CbRoom == Cardinality(DOMAIN sessions) < MaxCbSessions

CbWhere == \E r \in DOMAIN sessions : CbRoom /\ RepoWhere(r, QA, ArgsA)
CbModel == \E r \in DOMAIN sessions : CbRoom /\ RepoModel(r, StrV("&user"))
\* a new name, or the name of a handler of the default chain
CbCallback ==
    \E r \in DOMAIN sessions :
        /\ Len(handles) < MaxCbHandles
        /\ RepoCallback(r)
CbRegister ==
    \E h \in 1..Len(handles), name \in {"audit", "gorm:query"} :
        HandleRegister(h, name)
CbFind ==
    \E r \in DOMAIN sessions, outcome \in Outcomes :
        CbRoom /\ RepoFindWhere(r, UserSlice, <<>>, outcome)

NextCallback == CbWhere \/ CbModel \/ CbCallback \/ CbRegister \/ CbFind

SpecCallback == Init /\ [][NextCallback]_vars

IsPrefix(a, b) == Len(a) <= Len(b) /\ SubSeq(b, 1, Len(a)) = a

\* two sessions derived from the root, neither derived from the other
Siblings(a, b) ==
    a # RootId /\ b # RootId /\ ~IsPrefix(a, b) /\ ~IsPrefix(b, a)

\* C12 (as claimed): a callback registered through Callback() on one derived
\* session is not observed by terminal calls made on its siblings: the
\* query chain a Find runs holds no handler that was registered through a
\* sibling of the session Find was called on.
C12_SiblingCallbacksInvisible ==
    lastCall.op = "Find" =>
        \A i \in 1..Len(lastCall.ran) :
            lastCall.ran[i].builtin \/ ~Siblings(lastCall.ran[i].by, lastCall.recv)

\* ------------------------------------ registry handles (SpecHandle)
MaxHandles == 2
MaxHandleSessions == 2

HdWhere ==
    \E r \in DOMAIN sessions :
        /\ Cardinality(DOMAIN sessions) < MaxHandleSessions
        /\ RepoWhere(r, QA, ArgsA)
HdCallback ==
    \E r \in DOMAIN sessions :
        /\ Len(handles) < MaxHandles
        /\ RepoCallback(r)
HdRegister ==
    \E h \in 1..Len(handles), name \in {"audit", "gorm:query"} :
        HandleRegister(h, name)
HdFind ==
    \E r \in DOMAIN sessions :
        /\ Cardinality(DOMAIN sessions) < MaxHandleSessions
        /\ \E outcome \in Outcomes : RepoFindWhere(r, UserSlice, <<>>, outcome)

\* the registry of a session is replaced by nil, by that of another session
\* or by a handle
HdSetCallbacks ==
    \E r \in DOMAIN sessions :
        \E cb \in {NilCallback} \cup {sessions[s].callbacks : s \in DOMAIN sessions}
                   \cup {HandleCallback(h) : h \in 1..Len(handles)} :
            /\ sessions[r].callbacks # cb
            /\ RepoSetCallbacks(r, cb)

NextHandle == HdWhere \/ HdCallback \/ HdRegister \/ HdSetCallbacks \/ HdFind

SpecHandle == Init /\ [][NextHandle]_vars

\* the entries registered on the h-th handle
Registered(h) ==
    {handles[h].queries[i] : i \in 1..Len(handles[h].queries)}

\* C33 (as claimed): every registration performed on a handle returned by
\* Callback() is part of the chain a later terminal call of that root runs,
\* also when another Callback() call happened between obtaining the handle
\* and registering on it: the chain a Find runs holds every entry
\* registered on any handle so far.
C33_NoRegistrationLost ==
    (lastCall.op = "Find" /\ lastCall.out # StrV("panic")) =>
        \A h \in 1..Len(handles) :
            \A e \in Registered(h) :
                \E k \in 1..Len(lastCall.ran) : lastCall.ran[k] = e

\* --------------------------------------- the root of a session (SpecRoot)
MaxRootSessions == 3
MaxRootHandles == 1

RootRoom == Cardinality(DOMAIN sessions) < MaxRootSessions

RtWhere == \E r \in DOMAIN sessions : RootRoom /\ RepoWhere(r, QA, ArgsA)
RtNew == \E r \in DOMAIN sessions : RootRoom /\ RepoNew(r)
RtModel == \E r \in DOMAIN sessions : RootRoom /\ RepoModel(r, StrV("&user"))
RtTable == \E r \in DOMAIN sessions : RootRoom /\ RepoTable(r, "users")
RtSet == \E r \in DOMAIN sessions : RootRoom /\ RepoSet(r, "k", IntV(1))
RtBegin == \E r \in DOMAIN sessions : RootRoom /\ RepoBegin(r, TRUE)
RtCallback ==
    \E r \in DOMAIN sessions :
        /\ Len(handles) < MaxRootHandles
        /\ RepoCallback(r)
RtRegister ==
    \E h \in 1..Len(handles) :
        /\ RootId \in DOMAIN sessions
        /\ HandleRegister(h, "audit")
RtFind ==
    \E r \in DOMAIN sessions, outcome \in {"rows1"} :
        RootRoom /\ RepoFindWhere(r, UserSlice, <<>>, outcome)

NextRoot ==
    \/ RtWhere \/ RtNew \/ RtModel \/ RtTable \/ RtSet \/ RtBegin
    \/ RtCallback \/ RtRegister \/ RtFind

SpecRoot == Init /\ [][NextRoot]_vars

\* C35: the session Open returned is its own parent, every session derived
\* from it by chain calls, New, Model, Table, Set, Begin or the clone of a
\* scope has that root as its parent, and the chain a terminal call runs is
\* the chain of the root's registry.
C35_RootInvariant ==
    /\ sessions[RootId].parent = RootId
    /\ \A s \in DOMAIN sessions : sessions[s].parent = RootId
    /\ (lastCall.op = "Find" /\ lastCall.out # StrV("panic")) =>
          lastCall.ran = sessions[RootId].callbacks.queries

\* Find was called on a session that New or Begin returned and ran a chain
\* holding the handler registered at the root's registry
C35_Witness ==
    /\ lastCall.op = "Find"
    /\ Len(lastCall.recv) >= 1
    /\ Len(CallsOf(lastCall.recv, "New")) + Len(CallsOf(lastCall.recv, "Begin")) >= 1
    /\ InChain("audit", lastCall.ran)

\* ------------------------------------------- the group clause (SpecGroup)
MaxClauseSessions == 4

ClauseRoom == Cardinality(DOMAIN sessions) < MaxClauseSessions

\* column names, the unset marker, and free text
GrpGroup ==
    \E r \in DOMAIN sessions, q \in {"name", "age", "-1", "bad;drop"} :
        ClauseRoom /\ RepoGroup(r, q)
GrpWhere == \E r \in DOMAIN sessions : ClauseRoom /\ RepoWhere(r, QA, ArgsA)

NextGroup == GrpGroup \/ GrpWhere

SpecGroup == Init /\ [][NextGroup]_vars

\* the strings of GrpGroup that hold a character outside letters, digits
\* and the characters of an identifier or a number
FreeText == {"bad;drop"}

\* C13 (as claimed): Group called with a string holding characters outside
\* the identifier/numeric allow-set records the invalid-SQL error on the
\* returned session and leaves that session's group clause empty.
C13_GroupRejectsFreeText ==
    \A n \in DOMAIN sessions \ {RootId} :
        (LastCallOf(n).op = "Group" /\ LastCallOf(n).query.s \in FreeText) =>
            /\ InSeq(ErrInvalidSQL.errs[1], GetErrors(sessions[n]))
            /\ sessions[n].search.group = ""

\* ------------------------------------------ the preload list (SpecPreload)
PlPreload ==
    \E r \in DOMAIN sessions, column \in {"Orders", "Items"},
       conditions \in {<<>>, <<StrV("state = ?"), StrV("paid")>>} :
        ClauseRoom /\ RepoPreload(r, column, conditions)
PlWhere == \E r \in DOMAIN sessions : ClauseRoom /\ RepoWhere(r, QA, ArgsA)

NextPreload == PlPreload \/ PlWhere

SpecPreload == Init /\ [][NextPreload]_vars

\* the Preload calls for association `column` along the chain that built id
PreloadCalls(id, column) ==
    SelectSeq(id, LAMBDA c : c.op = "Preload" /\ c.query = StrV(column))

\* C14: after any sequence of Preload calls the preload list holds at most
\* one entry per association name; a name that was preloaded has an entry
\* holding the conditions of the most recent Preload call for it, whatever
\* other names were preloaded before or after; a name never preloaded has
\* none.
C14_PreloadOnePerName ==
    \A n \in DOMAIN sessions :
        LET pl == sessions[n].search.preload
        IN /\ \A i, j \in 1..Len(pl) : pl[i].schema = pl[j].schema => i = j
           /\ \A column \in {"Orders", "Items"} :
                 LET calls == PreloadCalls(n, column)
                 IN IF calls = <<>>
                    THEN \A i \in 1..Len(pl) : pl[i].schema # column
                    ELSE \E i \in 1..Len(pl) :
                            /\ pl[i].schema = column
                            /\ pl[i].conditions = calls[Len(calls)].args

\* Orders was preloaded twice with different conditions, Items once in
\* between or around, and the list holds two entries
C14_Witness ==
    \E n \in DOMAIN sessions :
        /\ Len(PreloadCalls(n, "Orders")) = 2
        /\ PreloadCalls(n, "Orders")[1].args # PreloadCalls(n, "Orders")[2].args
        /\ Len(PreloadCalls(n, "Items")) = 1
        /\ Len(sessions[n].search.preload) = 2

\* ---------------------------------------------- the order list (SpecOrder)
\* order terms, nil and the empty string, with every form of the flag
OrdOrder ==
    \E r \in DOMAIN sessions,
       value \in {StrV("name"), StrV("age desc"), NilV, StrV("")},
       reorder \in {<<>>, <<TRUE>>, <<FALSE>>} :
        ClauseRoom /\ RepoOrder(r, value, reorder)
OrdWhere == \E r \in DOMAIN sessions : ClauseRoom /\ RepoWhere(r, QA, ArgsA)

NextOrder == OrdOrder \/ OrdWhere

SpecOrder == Init /\ [][NextOrder]_vars

\* the order terms a session observes
Orders(ss, arrs, id) == [i \in 1..ss[id].search.orders.len |->
                            arrs[ss[id].search.orders.arr][i].query]

\* the reorder flag a recorded Order call was given
Reordering(c) == Len(c.args) > 0 /\ c.args[1] = BoolV(TRUE)

NoOrderValue(v) == v = NilV \/ v = StrV("")

\* C15: Order(w, reorder=true) returns a session whose order list holds w
\* only, whatever terms the receiver had accumulated; Order(w) and
\* Order(w, reorder=false) return a session whose order list is the
\* receiver's followed by w (w being an order term, not nil or "").
C15_OrderReplacesOrAppends ==
    [][\A n \in DOMAIN sessions' \ DOMAIN sessions :
          (LastCallOf(n).op = "Order" /\ ~NoOrderValue(LastCallOf(n).query)) =>
              Orders(sessions', arrays', n) =
                  IF Reordering(LastCallOf(n)) THEN <<LastCallOf(n).query>>
                  ELSE Append(Orders(sessions, arrays, Receiver(n)),
                              LastCallOf(n).query)]_vars

\* Order(v).Order(w, true) holds w only, and Order(v).Order(w, false) holds
\* v then w
C15_Witness ==
    /\ \E n \in DOMAIN sessions :
          /\ Len(n) = 2 /\ n[1].op = "Order" /\ n[2].op = "Order"
          /\ Reordering(n[2])
          /\ Orders(sessions, arrays, Receiver(n)) = <<StrV("name")>>
          /\ Orders(sessions, arrays, n) = <<StrV("age desc")>>
    /\ \E n \in DOMAIN sessions :
          /\ Len(n) = 2 /\ n[2].op = "Order"
          /\ n[2].args = <<BoolV(FALSE)>>
          /\ Orders(sessions, arrays, n) = <<StrV("name"), StrV("age desc")>>

\* C16 (as claimed): Order called with nil or "" is a no-op whatever flag
\* is passed: the order list of the returned session equals the receiver's.
C16_EmptyOrderIsNoOp ==
    [][\A n \in DOMAIN sessions' \ DOMAIN sessions :
          (LastCallOf(n).op = "Order" /\ NoOrderValue(LastCallOf(n).query)) =>
              Orders(sessions', arrays', n) = Orders(sessions, arrays, Receiver(n))]_vars

\* ------------------------- fresh sessions, limit and offset (SpecFresh)
MaxFreshSessions == 5

FreshRoom == Cardinality(DOMAIN sessions) < MaxFreshSessions

\* a number, the unset marker, nil and a value that is no number
FrLimit ==
    \E r \in DOMAIN sessions, v \in {IntV(10), IntV(-1), NilV, StrV("abc")} :
        FreshRoom /\ RepoLimit(r, v)
FrOffset ==
    \E r \in DOMAIN sessions, v \in {IntV(5), StrV("abc")} :
        FreshRoom /\ RepoOffset(r, v)
FrWhere == \E r \in DOMAIN sessions : FreshRoom /\ RepoWhere(r, QA, ArgsA)
FrModel == \E r \in DOMAIN sessions : FreshRoom /\ RepoModel(r, StrV("&user"))
FrNew == \E r \in DOMAIN sessions : FreshRoom /\ RepoNew(r)
FrFind ==
    \E r \in DOMAIN sessions, outcome \in {"rows0", "rows1"} :
        FreshRoom /\ RepoFindWhere(r, UserSlice, <<>>, outcome)

NextFresh == FrLimit \/ FrOffset \/ FrWhere \/ FrModel \/ FrNew \/ FrFind

SpecFresh == Init /\ [][NextFresh]_vars

\* the calls made since the session was last created afresh (by Open, or by
\* the last New of the chain)
RECURSIVE SinceFresh(_)
SinceFresh(id) ==
    IF id = <<>> \/ id[Len(id)].op = "New" THEN <<>>
    ELSE Append(SinceFresh(SubSeq(id, 1, Len(id) - 1)), id[Len(id)])

\* C17 (as claimed): a session created by Open or New, or derived from one
\* without a Limit or Offset call, has a Search with limit = -1 and
\* offset = -1.
C17_FreshLimitOffsetUnset ==
    \A n \in DOMAIN sessions :
        (CallsOf(SinceFresh(n), "Limit") = <<>> /\ CallsOf(SinceFresh(n), "Offset") = <<>>) =>
            /\ ~sessions[n].searchIsNil
            /\ sessions[n].search.limit = IntV(-1)
            /\ sessions[n].search.offset = IntV(-1)

\* C17 (amended): a session created by Open or New holds no Search; every
\* session derived from it holds one, whose limit is -1 until Limit is
\* called and whose offset is -1 until Offset is called.
C17_FirstCloneLimitOffsetUnset ==
    \A n \in DOMAIN sessions :
        IF SinceFresh(n) = <<>> THEN sessions[n].searchIsNil
        ELSE /\ ~sessions[n].searchIsNil
             /\ CallsOf(SinceFresh(n), "Limit") = <<>> => sessions[n].search.limit = IntV(-1)
             /\ CallsOf(SinceFresh(n), "Offset") = <<>> => sessions[n].search.offset = IntV(-1)

\* a chain through New: the session New returned holds no Search, the
\* session derived from it holds the defaults, although Limit and Offset
\* were called before New
C17_Witness ==
    \E n \in DOMAIN sessions :
        /\ Len(n) = 4 /\ n[1].op = "Limit" /\ n[2].op = "Offset" /\ n[3].op = "New"
        /\ n[4].op = "Where"
        /\ sessions[Receiver(n)].searchIsNil
        /\ sessions[Receiver(Receiver(n))].search.limit = IntV(10)
        /\ sessions[n].search.limit = IntV(-1)
        /\ sessions[n].search.offset = IntV(-1)

\* C18: Limit(v) stores v as given and leaves the offset alone, Offset(v)
\* stores v as given and leaves the limit alone, for a number, -1, nil or a
\* value that is no number; the last call wins.  So the limit of a session
\* is the value of the last Limit call made since it was created afresh,
\* and its offset the value of the last Offset call.
C18_LimitOffsetVerbatim ==
    \A n \in DOMAIN sessions :
        LET ls == CallsOf(SinceFresh(n), "Limit")
            os == CallsOf(SinceFresh(n), "Offset")
        IN /\ ls # <<>> => sessions[n].search.limit = ls[Len(ls)].query
           /\ os # <<>> => sessions[n].search.offset = os[Len(os)].query
           /\ (ls = <<>> /\ os # <<>>) => sessions[n].search.limit = IntV(-1)
           /\ (os = <<>> /\ ls # <<>>) => sessions[n].search.offset = IntV(-1)

\* Limit(10).Offset("abc").Limit(nil): the limit is nil, the last value
\* given, and the offset is still "abc"
C18_Witness ==
    \E n \in DOMAIN sessions :
        /\ Len(n) = 3
        /\ n[1] = Call("Limit", IntV(10), <<>>)
        /\ n[2] = Call("Offset", StrV("abc"), <<>>)
        /\ n[3] = Call("Limit", NilV, <<>>)
        /\ sessions[n].search.limit = NilV
        /\ sessions[n].search.offset = StrV("abc")

\* what the session returned by call c made on a session without conditions
\* and without a bound value observes: the fresh Search with c's own
\* contribution, and the value c binds
FromEmpty(c) ==
    [searchIsNil |-> c.op = "New",
     search |-> IF c.op = "New" THEN SearchView(ZeroSearch, arrays)
                ELSE [SearchView(FreshSearch, arrays) EXCEPT
                        !.whereConditions = IF c.op = "Where" THEN <<Cond(c.query, c.args)>>
                                            ELSE <<>>,
                        !.limit = IF c.op = "Limit" THEN c.query ELSE IntV(-1),
                        !.offset = IF c.op = "Offset" THEN c.query ELSE IntV(-1)],
     value |-> IF c.op \in {"Model", "Find"} THEN c.query ELSE NilV]

\* C20: New() returns a session without a Search and without a bound value,
\* whatever the receiver had accumulated, and leaves the receiver's Search
\* and value as they were; a chain or terminal call made on the session New
\* returned yields what the same call yields on a session that never held a
\* condition: an empty Search with limit = offset = -1 plus the call's own
\* contribution.
C20_NewStartsFromEmptySearch ==
    [][\A n \in DOMAIN sessions' \ DOMAIN sessions :
          /\ LastCallOf(n).op = "New" =>
                /\ sessions'[n].searchIsNil
                /\ sessions'[n].value = NilV
                /\ ViewIn(sessions', arrays', Receiver(n)) = View(Receiver(n))
          /\ (Len(n) >= 2 /\ n[Len(n) - 1].op = "New") =>
                ViewIn(sessions', arrays', n) = FromEmpty(LastCallOf(n))]_vars

\* New was called on a session holding a condition, a limit and a bound
\* value, and Where was called on the session New returned
C20_Witness ==
    \E n \in DOMAIN sessions :
        /\ Len(n) = 4 /\ n[3].op = "New" /\ n[4].op = "Where"
        /\ View(SubSeq(n, 1, 2)).value # NilV
        /\ Len(View(SubSeq(n, 1, 2)).search.whereConditions) = 1
        /\ sessions[SubSeq(n, 1, 3)].searchIsNil
        /\ View(n).search.whereConditions = <<Cond(QA, ArgsA)>>
        /\ View(n).value = NilV

\* ------------------------------ what a clone shares (SpecSettings)
MaxSetSessions == 3

SetRoom == Cardinality(DOMAIN sessions) < MaxSetSessions

\* the handle is configured after Open, one call after the other; these
\* calls act on the session itself
StLogMode == sessions[RootId].logMode = 0 /\ RepoLogMode(RootId, TRUE)
StSetLogger ==
    /\ sessions[RootId].logMode = 2 /\ sessions[RootId].logger = "defaultLogger"
    /\ RepoSetLogger(RootId, "customLogger")
StBlockGlobalUpdate ==
    /\ sessions[RootId].logger = "customLogger" /\ ~sessions[RootId].blockGlobalUpdate
    /\ RepoBlockGlobalUpdate(RootId, TRUE)
StAddError ==
    /\ sessions[RootId].blockGlobalUpdate /\ IsNilErr(sessions[RootId].err)
    /\ RepoAddError(RootId, E1)

StInstantSet ==
    \E r \in DOMAIN sessions, v \in {IntV(1), IntV(2)} : RepoInstantSet(r, "k", v)
StSet == \E r \in DOMAIN sessions : SetRoom /\ RepoSet(r, "k", IntV(3))
StModel == \E r \in DOMAIN sessions : SetRoom /\ RepoModel(r, StrV("&user"))
StBegin == \E r \in DOMAIN sessions : SetRoom /\ RepoBegin(r, TRUE)

NextSettings ==
    \/ StLogMode \/ StSetLogger \/ StBlockGlobalUpdate \/ StAddError
    \/ StInstantSet \/ StSet \/ StModel \/ StBegin

SpecSettings == Init /\ [][NextSettings]_vars

\* what Clone is claimed to carry over, the settings aside
Carried(r) ==
    [db |-> r.db, parent |-> r.parent, logger |-> r.logger, logMode |-> r.logMode,
     value |-> r.value, err |-> r.err, blockGlobalUpdate |-> r.blockGlobalUpdate]

\* C19: the session a cloning call returns has the executor, parent,
\* logger, log mode, bound value, error state and block-global-update flag
\* of its source (Model aside for the value it binds, Begin aside for the
\* executor it swaps in and the error it may add) and the source's settings; Set(name, v) returns a clone whose
\* Get(name) is v and leaves every Get of the receiver as it was;
\* InstantSet(name, v) changes the Get(name) of the receiver itself and of
\* no other session, be it the clone or the source of the receiver.
C19_CloneCarriesAndSeparatesSettings ==
    [][/\ \A n \in DOMAIN sessions' \ DOMAIN sessions :
             LET src == sessions[Receiver(n)]
                 new == sessions'[n]
                 c == LastCallOf(n)
             IN /\ Carried(new) = [Carried(src) EXCEPT
                                      !.value = IF c.op = "Model" THEN c.query ELSE @,
                                      !.db = IF c.op = "Begin" THEN new.db ELSE @,
                                      !.err = IF c.op = "Begin" THEN new.err ELSE @]
                /\ sessions'[Receiver(n)].values = src.values
                /\ IF c.op = "Set"
                   THEN /\ Get(new, c.query.s) = [value |-> c.args[1], ok |-> TRUE]
                        /\ \A k \in DOMAIN src.values \ {c.query.s} :
                               Get(new, k) = Get(src, k)
                   ELSE new.values = src.values
       /\ \A s \in DOMAIN sessions :
             sessions'[s].values # sessions[s].values =>
                 /\ lastCall'.op = "InstantSet" /\ lastCall'.recv = s
                 /\ \A t \in DOMAIN sessions \ {s} : sessions'[t].values = sessions[t].values
                 /\ Get(sessions'[s], "k").ok]_vars

\* a configured handle was cloned by Set, and InstantSet was then called on
\* the source and on the clone: each sees its own value
C19_Witness ==
    \E n \in DOMAIN sessions :
        /\ Len(n) = 1 /\ n[1].op = "Set"
        /\ sessions[n].logMode = 2 /\ sessions[n].logger = "customLogger"
        /\ sessions[n].blockGlobalUpdate /\ ~IsNilErr(sessions[n].err)
        /\ Get(sessions[RootId], "k") = [value |-> IntV(1), ok |-> TRUE]
        /\ Get(sessions[n], "k") = [value |-> IntV(2), ok |-> TRUE]

\* ------------------------------------------ association handles (SpecAssoc)
\* The bound values of this part: pointers to a user record whose primary
\* key is blank or set.  The record type has a plain column, a has-many
\* relationship with a foreign key, and a relationship that names no
\* foreign key.
UserBlank == StrV("&User{}")
UserSaved == StrV("&User{ID:1}")

\* Scope.PrimaryField().IsBlank for the bound value
PrimaryKeyZero(value) == value # UserSaved

\* Scope.FieldByName(column): whether the record has the field, whether the
\* field carries a relationship, and the foreign field names of that
\* relationship
FieldByName(value, column) ==
    IF column = "Name" THEN [ok |-> TRUE, relationship |-> FALSE, foreignFieldNames |-> <<>>]
    ELSE IF column = "Emails"
    THEN [ok |-> TRUE, relationship |-> TRUE, foreignFieldNames |-> <<"UserID">>]
    ELSE IF column = "Tags"
    THEN [ok |-> TRUE, relationship |-> TRUE, foreignFieldNames |-> <<>>]
    ELSE [ok |-> FALSE, relationship |-> FALSE, foreignFieldNames |-> <<>>]

\* &Association{Error: err}: bound to no scope and to no field
FailedAssociation(err) ==
    [err |-> err, scopeIsNil |-> TRUE, column |-> "", fieldIsNil |-> TRUE]

\* (mutant) Association that looks the field up before it looks at the
\* primary key
AssociationFieldFirst(r, column) ==
    LET field == FieldByName(r.value, column)
    IN IF ~field.ok
       THEN FailedAssociation(Single("doesn't have column"))
       ELSE IF ~field.relationship \/ Len(field.foreignFieldNames) = 0
       THEN FailedAssociation(Single("invalid association"))
       ELSE IF PrimaryKeyZero(r.value)
       THEN FailedAssociation(Single("primary key can't be nil"))
       ELSE [err |-> NoError, scopeIsNil |-> FALSE, column |-> column,
             fieldIsNil |-> FALSE]

\* the handle Association(column) builds for the session record r
Association(r, column) ==
    LET field == FieldByName(r.value, column)
    IN IF PrimaryKeyZero(r.value)
       THEN FailedAssociation(Single("primary key can't be nil"))
       ELSE IF field.ok
       THEN IF ~field.relationship \/ Len(field.foreignFieldNames) = 0
            THEN FailedAssociation(Single("invalid association"))
            ELSE [err |-> NoError, scopeIsNil |-> FALSE, column |-> column,
                  fieldIsNil |-> FALSE]
       ELSE FailedAssociation(Single("doesn't have column"))

\* (mutant) Association that marks the source on the receiver itself
RepoAssociationInPlace(r, column) ==
    /\ sessions' = [sessions EXCEPT ![r].values =
                       ("gorm:association:source" :> sessions[r].value) @@ @]
    /\ lastCall' = [NoCall EXCEPT !.op = "Association", !.recv = r,
                                  !.arg = StrV(column),
                                  !.result = Association(sessions[r], column).err,
                                  !.assoc = Association(sessions[r], column)]
    /\ UNCHANGED <<arrays, searches, txs, proc, log, added, modelStructsMap, handles, model, setterCalls, pending>>

\* Association(column) on the session r: the source marker is set on a
\* clone (Set), the scope is built on a clone of that clone (NewScope);
\* neither clone is handed out as a session, the handle is
RepoAssociation(r, column) ==
    LET marked == Clone(sessions[r], NewId(r, "Set", StrV("gorm:association:source"),
                                           <<sessions[r].value>>))
        scopeDb == Clone(marked, NewId(r, "Association", StrV(column), <<>>))
    IN /\ sessions' = sessions
       /\ lastCall' = [NoCall EXCEPT !.op = "Association", !.recv = r,
                                     !.arg = StrV(column),
                                     !.result = Association(scopeDb, column).err,
                                     !.assoc = Association(scopeDb, column)]
       /\ UNCHANGED <<arrays, searches, txs, proc, log, added, modelStructsMap, handles, model, setterCalls, pending>>

AsModel ==
    \E r \in DOMAIN sessions, v \in {UserBlank, UserSaved} :
        ClauseRoom /\ RepoModel(r, v)
AsWhere == \E r \in DOMAIN sessions : ClauseRoom /\ RepoWhere(r, QA, ArgsA)
AsAssociation ==
    \E r \in DOMAIN sessions, column \in {"Name", "Emails", "Tags", "Nope"} :
        sessions[r].value # NilV /\ RepoAssociation(r, column)

NextAssoc == AsModel \/ AsWhere \/ AsAssociation

SpecAssoc == Init /\ [][NextAssoc]_vars

\* the session has a record bound whose `column` is a relationship that
\* names a foreign key
Associable(r, column) ==
    /\ FieldByName(r.value, column).ok
    /\ FieldByName(r.value, column).relationship
    /\ Len(FieldByName(r.value, column).foreignFieldNames) > 0

\* C21: Association(column) answers at once.  If the primary key of the
\* bound record is blank, or the record has no such field, or the field is
\* not a relationship with foreign keys, the handle holds a non-nil error
\* and is bound to no scope and no field; otherwise its error is nil and it
\* is bound to that field.  The blank primary key is reported whatever the
\* field is.  No session is changed by the call.
C21_AssociationFailsEagerly ==
    [][(lastCall'.op = "Association" /\ lastCall' # lastCall) =>
          LET r == sessions[lastCall'.recv]
              column == lastCall'.arg.s
              h == lastCall'.assoc
          IN /\ sessions' = sessions
             /\ IF PrimaryKeyZero(r.value) \/ ~Associable(r, column)
                THEN ~IsNilErr(h.err) /\ h.scopeIsNil /\ h.fieldIsNil
                ELSE IsNilErr(h.err) /\ ~h.scopeIsNil /\ ~h.fieldIsNil
                     /\ h.column = column
             /\ PrimaryKeyZero(r.value) =>
                    h.err = Single("primary key can't be nil")]_vars

\* a handle was asked of a record with a blank primary key for a field the
\* record does not have, and the blank key is what was reported
C21_Witness ==
    /\ lastCall.op = "Association" /\ lastCall.arg = StrV("Nope")
    /\ sessions[lastCall.recv].value = UserBlank
    /\ lastCall.assoc.err = Single("primary key can't be nil")
    /\ lastCall.assoc.scopeIsNil

\* ------------------------------------------------ scopes and SQL assembly
\* the WHERE clause: the conditions AND-ed in the order they were added
RECURSIVE WhereSQL(_)
WhereSQL(conds) ==
    IF conds = <<>> THEN ""
    ELSE "(" \o Head(conds).query.s \o ")"
         \o (IF Tail(conds) = <<>> THEN "" ELSE " AND " \o WhereSQL(Tail(conds)))

\* the arguments of the conditions, in placeholder order
RECURSIVE WhereVars(_)
WhereVars(conds) ==
    IF conds = <<>> THEN <<>> ELSE Head(conds).args \o WhereVars(Tail(conds))

\* Scope.prepareQuerySQL with placeholders kept ("skip_bindvar"): the text
\* and the arguments, for the table, the where conditions and the limit of
\* the scope's Search
prepareQuerySQL(scope, table, arrs) ==
    LET conds == Elems(scope.Search.whereConditions, arrs)
        limit == getInterfaceAsSQL(scope.Search.limit).str
    IN [SQL |-> "SELECT * FROM "
                \o (IF scope.Search.tableName # "" THEN scope.Search.tableName ELSE table)
                \o (IF conds = <<>> THEN "" ELSE " WHERE " \o WhereSQL(conds))
                \o (IF limit = "" THEN "" ELSE " LIMIT " \o limit),
        SQLVars |-> WhereVars(conds)]

\* QueryExpr: Expr(scope.SQL, scope.SQLVars...) for the scope of r.value
QueryExpr(r, table, arrs) ==
    LET q == prepareQuerySQL(ScopeInstanceSet(NewScope(r, RootId, r.value),
                                              "skip_bindvar", BoolV(TRUE)),
                             table, arrs)
    IN ExprV(q.SQL, q.SQLVars)

\* (mutant) SubQuery that hands out the text without parentheses
SubQueryBare(r, table, arrs) ==
    LET q == prepareQuerySQL(ScopeInstanceSet(NewScope(r, RootId, r.value),
                                              "skip_bindvar", BoolV(TRUE)),
                             table, arrs)
    IN ExprV(q.SQL, q.SQLVars)

\* SubQuery: Expr(fmt.Sprintf("(%v)", scope.SQL), scope.SQLVars...)
SubQuery(r, table, arrs) ==
    LET q == prepareQuerySQL(ScopeInstanceSet(NewScope(r, RootId, r.value),
                                              "skip_bindvar", BoolV(TRUE)),
                             table, arrs)
    IN ExprV("(" \o q.SQL \o ")", q.SQLVars)

\* the descriptor the scope of session r consults for its table name
ModelStructOf(r) ==
    GetModelStruct(modelStructsMap, sessions[r].value,
                   sessions[sessions[r].parent].singularTable)

\* QueryExpr() / SubQuery() called on the session r: the scope is built on
\* a clone that is not handed out; the descriptor of the bound type is
\* looked up (and cached); nothing is sent to the executor
RepoQueryExpr(r) ==
    /\ lastCall' = [NoCall EXCEPT !.op = "QueryExpr", !.recv = r,
                        !.out = QueryExpr(sessions[r], ModelStructOf(r).table, arrays)]
    /\ modelStructsMap' = ModelStructOf(r).cache
    /\ UNCHANGED <<sessions, arrays, searches, txs, proc, log, added, handles, model, setterCalls, pending>>

RepoSubQuery(r) ==
    /\ lastCall' = [NoCall EXCEPT !.op = "SubQuery", !.recv = r,
                        !.out = SubQuery(sessions[r], ModelStructOf(r).table, arrays)]
    /\ modelStructsMap' = ModelStructOf(r).cache
    /\ UNCHANGED <<sessions, arrays, searches, txs, proc, log, added, handles, model, setterCalls, pending>>

\* --------------------------------------- queries as expressions (SpecExpr)
ExWhere ==
    \E r \in DOMAIN sessions, c \in {Cond(QA, ArgsA), Cond(QB, ArgsB)} :
        ClauseRoom /\ RepoWhere(r, c.query, c.args)
ExLimit == \E r \in DOMAIN sessions : ClauseRoom /\ RepoLimit(r, IntV(3))
ExModel == \E r \in DOMAIN sessions : ClauseRoom /\ RepoModel(r, UserSaved)
ExQueryExpr == \E r \in DOMAIN sessions : RepoQueryExpr(r)
ExSubQuery == \E r \in DOMAIN sessions : RepoSubQuery(r)

NextExpr == ExWhere \/ ExLimit \/ ExModel \/ ExQueryExpr \/ ExSubQuery

SpecExpr == Init /\ [][NextExpr]_vars

\* C22: SubQuery() returns the text QueryExpr() returns for the same
\* session inside one pair of parentheses, with the same arguments; neither
\* call sends anything to the executor or runs a pipeline, and neither
\* changes the Search, the bound value or the stored error of any session.
C22_SubQueryWrapsQueryExpr ==
    [][(lastCall'.op \in {"QueryExpr", "SubQuery"} /\ lastCall' # lastCall) =>
          LET r == lastCall'.recv
              q == QueryExpr(sessions[r], ModelStructOf(r).table, arrays)
          IN /\ sessions' = sessions /\ arrays' = arrays /\ txs' = txs
             /\ lastCall'.pipes = <<>>
             /\ lastCall'.commits = 0 /\ lastCall'.rollbacks = 0 /\ lastCall'.begins = 0
             /\ lastCall'.op = "QueryExpr" => lastCall'.out = q
             /\ lastCall'.op = "SubQuery" =>
                    /\ lastCall'.out.s = "(" \o q.s \o ")"
                    /\ lastCall'.out.a = q.a]_vars

\* SubQuery was called on a session with a record bound and two conditions
C22_Witness ==
    /\ lastCall.op = "SubQuery"
    /\ lastCall.out.s = "(SELECT * FROM users WHERE (a = ?) AND (b = ?))"
    /\ lastCall.out.a = <<IntV(1), IntV(2)>>

\* ------------------------------------------- the diagnostic log (SpecLog)
MaxLogAdds == 3

\* r.AddError(err) on the root: in default mode the emission is handed to a
\* detached goroutine and is pending in the log until the scheduler runs it
LgAddError ==
    \E e \in {NoError, E1, E2, ErrRecordNotFound} :
        /\ Len(added[RootId]) < MaxLogAdds
        /\ added' = [added EXCEPT ![RootId] = Append(@, e)]
        /\ sessions' = [sessions EXCEPT ![RootId] = AddError(sessions[RootId], e).r]
        /\ log' = log \o AddError(sessions[RootId], e).emit
        /\ lastCall' = [NoCall EXCEPT !.op = "AddError", !.recv = RootId,
                            !.result = AddError(sessions[RootId], e).ret]
        /\ UNCHANGED <<arrays, searches, txs, proc, modelStructsMap, handles, model, setterCalls, pending>>

LgLogMode ==
    \E enable \in BOOLEAN :
        /\ RootId \in DOMAIN sessions
        /\ RepoLogMode(RootId, enable)

\* the scheduler runs one pending detached emission: the logger prints it.
\* Nothing forces this step; the process may end with emissions pending.
LgDeliver ==
    \E i \in 1..Len(log) :
        /\ log[i].how = "detached"
        /\ log' = [log EXCEPT ![i].how = "delivered"]
        /\ UNCHANGED <<sessions, arrays, searches, txs, proc, added,
                       modelStructsMap, lastCall, handles, model, setterCalls, pending>>

NextLog == LgAddError \/ LgLogMode \/ LgDeliver

SpecLog == Init /\ [][NextLog]_vars

\* the session and the return value the AddError calls of history h leave
\* when the log mode is `mode` throughout and no emission is delivered
RECURSIVE Replay(_, _)
Replay(h, mode) ==
    IF h = <<>> THEN [r |-> [OpenSession EXCEPT !.logMode = mode], ret |-> NoError]
    ELSE LET a == AddError(Replay(SubSeq(h, 1, Len(h) - 1), mode).r, h[Len(h)])
         IN [r |-> a.r, ret |-> a.ret]

\* C23: the diagnostic log never affects the result.  After any sequence of
\* AddError calls, whatever the log mode was at each call and whichever
\* detached emissions were delivered, the stored error, the value the last
\* AddError returned, GetErrors and RecordNotFound are those the same
\* sequence leaves under each of the three log modes with nothing delivered.
C23_LogNeverAffectsResult ==
    \A mode \in {0, 1, 2} :
        LET ref == Replay(added[RootId], mode)
        IN /\ sessions[RootId].err = ref.r.err
           /\ GetErrors(sessions[RootId]) = GetErrors(ref.r)
           /\ RecordNotFound(sessions[RootId]) = RecordNotFound(ref.r)
           /\ lastCall.op = "AddError" => lastCall.result = ref.ret

\* two errors were added under different log modes, the emission of the
\* first is still pending, and logging is now off
C23_Witness ==
    /\ added[RootId] = <<E1, E2>>
    /\ sessions[RootId].err = Aggregate(<<"e1", "e2">>)
    /\ log = <<LogEntry("detached", E1), LogEntry("sync", E2)>>
    /\ sessions[RootId].logMode = 1

\* C30: an AddError call with an error that is neither nil nor the
\* not-found sentinel hands the logger exactly one emission in default mode
\* (to a detached goroutine) and in verbose mode (printed before the call
\* returns) and none when logging is off; nil and the sentinel are never
\* emitted; no other step adds an emission.
C30_LogModeGatesEmission ==
    [][IF added' # added
       THEN LET e == added'[RootId][Len(added'[RootId])]
                mode == sessions[RootId].logMode
            IN log' = IF IsNilErr(e) \/ e = ErrRecordNotFound \/ mode = 1 THEN log
                      ELSE IF mode = 0 THEN Append(log, LogEntry("detached", e))
                      ELSE Append(log, LogEntry("sync", e))
       ELSE Len(log') = Len(log)]_vars

\* with logging off an error was added and nothing was emitted for it,
\* after one emission in default mode had been delivered
C30_Witness ==
    /\ added[RootId] = <<E1, ErrRecordNotFound, E2>>
    /\ sessions[RootId].logMode = 1
    /\ lastCall.op = "AddError"
    /\ log = <<LogEntry("delivered", E1)>>

\* ------------------------------------------ the naming policy (SpecNaming)
\* (mutant) SingularTable that leaves the descriptor cache as it is
RepoSingularTableKeeping(r, enable) ==
    /\ sessions' = [sessions EXCEPT ![sessions[r].parent].singularTable = enable]
    /\ lastCall' = [NoCall EXCEPT !.op = "SingularTable", !.recv = r,
                        !.arg = BoolV(enable),
                        !.out = IntV(Cardinality(DOMAIN modelStructsMap))]
    /\ UNCHANGED <<arrays, searches, txs, proc, log, added, modelStructsMap, handles, model, setterCalls, pending>>

\* SingularTable(enable) on the session r: the process-wide cache is
\* replaced by an empty one and the flag is set on r.parent; lastCall.out
\* is the number of descriptors the cache held
RepoSingularTable(r, enable) ==
    /\ modelStructsMap' = NoModelStructs
    /\ sessions' = [sessions EXCEPT ![sessions[r].parent].singularTable = enable]
    /\ lastCall' = [NoCall EXCEPT !.op = "SingularTable", !.recv = r,
                        !.arg = BoolV(enable),
                        !.out = IntV(Cardinality(DOMAIN modelStructsMap))]
    /\ UNCHANGED <<arrays, searches, txs, proc, log, added, handles, model, setterCalls, pending>>

MaxNamingSessions == 2
NamingRoom == Cardinality(DOMAIN sessions) < MaxNamingSessions

NmModel == \E r \in DOMAIN sessions : NamingRoom /\ RepoModel(r, UserSaved)
NmWhere == \E r \in DOMAIN sessions : NamingRoom /\ RepoWhere(r, QA, ArgsA)
NmTable == \E r \in DOMAIN sessions : NamingRoom /\ RepoTable(r, "people")
\* a scope of r consults the descriptor of the bound type
NmQueryExpr == \E r \in DOMAIN sessions : RepoQueryExpr(r)
NmSingularTable ==
    \E r \in DOMAIN sessions, enable \in BOOLEAN : RepoSingularTable(r, enable)

\* the flag of one session is set directly, the cache staying as it is
NmSetIsSingularTable ==
    \E r \in DOMAIN sessions, enable \in BOOLEAN :
        /\ sessions[r].singularTable # enable
        /\ RepoSetIsSingularTable(r, enable)
\* the bound value, the counter and the Search of a session are replaced
NmSetValue ==
    \E r \in DOMAIN sessions, v \in {NilV, UserSaved} :
        /\ sessions[r].value # v
        /\ RepoSetValue(r, v)
NmSetRowsAffected ==
    \E r \in DOMAIN sessions, row \in {0, 1} :
        /\ sessions[r].rowsAffected # row
        /\ RepoSetRowsAffected(r, row)
NmSetSearch ==
    \E r \in DOMAIN sessions, isNil \in BOOLEAN, src \in DOMAIN sessions :
        /\ r # src
        /\ RepoSetSearch(r, isNil, src)

NextNaming ==
    \/ NmModel \/ NmWhere \/ NmTable \/ NmQueryExpr \/ NmSingularTable
    \/ NmSetIsSingularTable \/ NmSetValue \/ NmSetRowsAffected \/ NmSetSearch

SpecNaming == Init /\ [][NextNaming]_vars

\* s.IsSingularTable(): the flag held by the session s itself
IsSingularTable(ss, s) == ss[s].singularTable

\* C24: after SingularTable(enable) on any session the process-wide
\* descriptor cache is empty and the flag of the root equals enable, so
\* that every session sharing the root finds it there: the flag of the
\* parent is the one a scope names tables by.
C24_SingularTableFlushesCache ==
    [][(lastCall'.op = "SingularTable" /\ lastCall' # lastCall) =>
          /\ modelStructsMap' = NoModelStructs
          /\ sessions'[RootId].singularTable = (lastCall'.arg = BoolV(TRUE))
          /\ \A s \in DOMAIN sessions' :
                 IsSingularTable(sessions', sessions'[s].parent)
                     = (lastCall'.arg = BoolV(TRUE))]_vars

\* a derived session switched singular naming on while the cache held a
\* descriptor computed under plural naming
C24_Witness ==
    /\ lastCall.op = "SingularTable" /\ lastCall.recv # RootId
    /\ lastCall.arg = BoolV(TRUE) /\ lastCall.out = IntV(1)
    /\ modelStructsMap = NoModelStructs
    /\ sessions[RootId].singularTable

\* ------------------------------------------------------- Open (SpecOpen)
\* the arguments of Open: strings, a *sql.DB handed in as the executor, an
\* executor of another type, and values that are neither
SqlDBV == [t |-> "*sql.DB", i |-> 0, s |-> "", a |-> <<>>]
SqlCommonV == [t |-> "SQLCommon", i |-> 0, s |-> "", a |-> <<>>]

\* one call on the driver and whether it succeeded
Exec(call, ok) == [call |-> call, ok |-> ok]

EOpen == Single("sql.Open failed")
EPing == Single("ping failed")

\* what Open hands back: whether it returned at all (a failed type
\* assertion panics), the session (db) unless nil, the error, and the calls
\* made on the driver
OpenResult(returned, dbIsNil, db, err, ran) ==
    [returned |-> returned, dbIsNil |-> dbIsNil, db |-> db, err |-> err, ran |-> ran]

\* the repository Open builds around the executor: default logger, empty
\* settings, default callbacks, its own parent
Opened(executor) == [OpenSession EXCEPT !.db = executor]

\* (mutant) Open that closes the connection after every failed ping
OpenClosingAlways(args, openOk, pingOk) ==
    IF Len(args) = 0
    THEN OpenResult(TRUE, TRUE, OpenSession, Single("invalid database source"), <<>>)
    ELSE IF args[1].t = "string"
    THEN IF Len(args) >= 2 /\ args[2].t # "string"
         THEN OpenResult(FALSE, TRUE, OpenSession, NoError, <<>>)
         ELSE IF ~openOk
         THEN OpenResult(TRUE, FALSE, Opened([kind |-> "nildb", id |-> 0]), EOpen,
                         <<Exec("sql.Open", FALSE)>>)
         ELSE IF ~pingOk
         THEN OpenResult(TRUE, FALSE, Opened(PlainDB), EPing,
                         <<Exec("sql.Open", TRUE), Exec("Ping", FALSE), Exec("Close", TRUE)>>)
         ELSE OpenResult(TRUE, FALSE, Opened(PlainDB), NoError,
                         <<Exec("sql.Open", TRUE), Exec("Ping", TRUE)>>)
    ELSE IF args[1].t = "*sql.DB"
    THEN IF pingOk
         THEN OpenResult(TRUE, FALSE, Opened(PlainDB), NoError, <<Exec("Ping", TRUE)>>)
         ELSE OpenResult(TRUE, FALSE, Opened(PlainDB), EPing,
                         <<Exec("Ping", FALSE), Exec("Close", TRUE)>>)
    ELSE IF args[1].t = "SQLCommon"
    THEN OpenResult(TRUE, FALSE, Opened([kind |-> "tx", id |-> 0]), NoError, <<>>)
    ELSE OpenResult(TRUE, TRUE, OpenSession,
                    Single("invalid database source: not a valid type"), <<>>)

\* Open(dialect, args...), the driver answering sql.Open with openOk and
\* Ping with pingOk
Open(args, openOk, pingOk) ==
    IF Len(args) = 0
    THEN OpenResult(TRUE, TRUE, OpenSession, Single("invalid database source"), <<>>)
    ELSE IF args[1].t = "string"
    THEN IF Len(args) >= 2 /\ args[2].t # "string"
         THEN OpenResult(FALSE, TRUE, OpenSession, NoError, <<>>)
         ELSE IF ~openOk
         THEN OpenResult(TRUE, FALSE, Opened([kind |-> "nildb", id |-> 0]), EOpen,
                         <<Exec("sql.Open", FALSE)>>)
         ELSE IF ~pingOk
         THEN OpenResult(TRUE, FALSE, Opened(PlainDB), EPing,
                         <<Exec("sql.Open", TRUE), Exec("Ping", FALSE), Exec("Close", TRUE)>>)
         ELSE OpenResult(TRUE, FALSE, Opened(PlainDB), NoError,
                         <<Exec("sql.Open", TRUE), Exec("Ping", TRUE)>>)
    ELSE IF args[1].t = "*sql.DB"
    THEN OpenResult(TRUE, FALSE, Opened(PlainDB), IF pingOk THEN NoError ELSE EPing,
                    <<Exec("Ping", pingOk)>>)
    ELSE IF args[1].t = "SQLCommon"
    THEN OpenResult(TRUE, FALSE, Opened([kind |-> "tx", id |-> 0]), NoError, <<>>)
    ELSE OpenResult(TRUE, TRUE, OpenSession,
                    Single("invalid database source: not a valid type"), <<>>)

\* before Open: no session exists
InitClosed ==
    /\ sessions = [id \in {} |-> OpenSession]
    /\ arrays = [a \in {} |-> <<>>]
    /\ searches = [n \in {} |-> ZeroSearch]
    /\ txs = <<>>
    /\ proc = IdleProc
    /\ log = <<>>
    /\ added = (RootId :> <<>>)
    /\ modelStructsMap = NoModelStructs
    /\ handles = <<>>
    /\ model = ZeroModel
    /\ setterCalls = 0
    /\ pending = NoPending
    /\ lastCall = NoCall

OpenArgs ==
    {<<>>, <<StrV("dsn")>>, <<StrV("mysql"), StrV("dsn")>>, <<StrV("mysql"), IntV(5)>>,
     <<SqlDBV>>, <<SqlCommonV>>, <<IntV(5)>>, <<NilV>>}

\* Open is called while the caller holds no session; the session it hands
\* back, if any, is the root
OpOpen ==
    \E args \in OpenArgs, openOk \in BOOLEAN, pingOk \in BOOLEAN :
        LET res == Open(args, openOk, pingOk)
        IN /\ RootId \notin DOMAIN sessions
           /\ sessions' = IF res.returned /\ ~res.dbIsNil THEN (RootId :> res.db)
                          ELSE sessions
           /\ lastCall' = [NoCall EXCEPT !.op = "Open", !.arg = ListV(args),
                               !.result = res.err, !.ran = res.ran,
                               !.out = IF ~res.returned THEN StrV("panic")
                                       ELSE BoolV(~res.dbIsNil)]
           /\ UNCHANGED <<arrays, searches, txs, proc, log, added, modelStructsMap, handles, model, setterCalls, pending>>

MaxOpenSessions == 2
OpenRoom == Cardinality(DOMAIN sessions) < MaxOpenSessions

OpWhere ==
    \E r \in DOMAIN sessions, c \in {Cond(QA, ArgsA), Cond(QB, ArgsB)} :
        OpenRoom /\ RepoWhere(r, c.query, c.args)
OpSet == \E r \in DOMAIN sessions : OpenRoom /\ RepoSet(r, "k", IntV(1))

\* Begin on what Open returned, the session of a failed sql.Open included
OpBegin == \E r \in DOMAIN sessions, ok \in BOOLEAN : OpenRoom /\ RepoBegin(r, ok)
\* a terminal call reads the chain of whatever the parent is by now
OpFind ==
    \E r \in DOMAIN sessions, outcome \in {"rows1"} :
        /\ OpenRoom \/ sessions[sessions[r].parent].callbacks.isNil
        /\ RepoFindWhere(r, UserSlice, <<>>, outcome)
\* the executor, the parent and the error slot of a session are replaced
\* in place
OpSetSQLCommonDB ==
    \E r \in DOMAIN sessions, src \in DOMAIN sessions :
        /\ sessions[r].db # sessions[src].db
        /\ RepoSetSQLCommonDB(r, src)
OpSetParent ==
    \E r \in DOMAIN sessions, p \in DOMAIN sessions :
        /\ sessions[r].parent # p
        /\ RepoSetParent(r, p)
OpSetError ==
    \E r \in DOMAIN sessions, err \in {NoError, E1} :
        /\ sessions[r].err # err
        /\ RepoSetError(r, err)

\* the settings map of a session is replaced by a map the caller built or
\* by the map of another session, and a map two sessions hold is written to
OpSetValues ==
    \E r \in DOMAIN sessions :
        /\ sessions[r].values # ("x" :> IntV(1))
        /\ RepoSetValues(r, "x", IntV(1))
OpSetValuesOf ==
    \E r \in DOMAIN sessions, src \in DOMAIN sessions :
        /\ sessions[r].valuesRef # sessions[src].valuesRef
        /\ RepoSetValuesOf(r, src)
OpInstantSet ==
    \E r \in DOMAIN sessions :
        /\ "k" \notin DOMAIN sessions[r].values
        /\ \E s \in DOMAIN sessions \ {r} : sessions[s].valuesRef = sessions[r].valuesRef
        /\ RepoInstantSet(r, "k", IntV(1))

NextOpen ==
    \/ OpOpen \/ OpWhere \/ OpSet \/ OpBegin \/ OpFind
    \/ OpSetSQLCommonDB \/ OpSetParent \/ OpSetError
    \/ OpSetValues \/ OpSetValuesOf \/ OpInstantSet

SpecOpen == InitClosed /\ [][NextOpen]_vars

\* the source Open was given: the argument after the driver name when
\* there are two or more and the first is a string, the first otherwise
SourceOf(args) ==
    IF Len(args) >= 2 /\ args[1].t = "string" THEN args[2] ELSE args[1]

\* C25 (as claimed): Open reports every failure to build the connection
\* when it returns.  With no source, or a source that is neither a string
\* nor an executor, it returns a nil session and a non-nil error; when the
\* driver fails to open or to answer the ping it returns a non-nil error;
\* when it returns a nil error the session is non-nil, has empty settings
\* and is its own parent.
C25_OpenReportsFailures ==
    [][(lastCall'.op = "Open" /\ lastCall' # lastCall) =>
          LET args == lastCall'.arg.a
              err == lastCall'.result
              ran == lastCall'.ran
              returned == lastCall'.out.t = "bool"
              noSource == Len(args) = 0
              badSource == /\ Len(args) > 0
                           /\ SourceOf(args).t \notin {"string", "*sql.DB", "SQLCommon"}
          IN /\ (noSource \/ badSource)
                    => /\ returned /\ lastCall'.out = BoolV(FALSE)
                       /\ ~IsNilErr(err)
                       /\ RootId \notin DOMAIN sessions'
             /\ (\E i \in 1..Len(ran) : ~ran[i].ok) => (returned /\ ~IsNilErr(err))
             /\ (returned /\ IsNilErr(err)) =>
                    /\ lastCall'.out = BoolV(TRUE)
                    /\ RootId \in DOMAIN sessions'
                    /\ sessions'[RootId].values = NoValues
                    /\ sessions'[RootId].parent = RootId]_vars

\* the call was made on the driver during the last Open
Made(ran, call) == \E i \in 1..Len(ran) : ran[i].call = call

\* C36: when the ping of Open fails, Open closes the connection if and only
\* if it opened the connection itself from a driver name and a source
\* string; a connection the caller supplied is never closed by Open, and
\* nothing is closed unless the ping failed.
C36_OpenClosesOnlyItsOwn ==
    [][(lastCall'.op = "Open" /\ lastCall' # lastCall) =>
          LET args == lastCall'.arg.a
              ran == lastCall'.ran
              pingFailed == \E i \in 1..Len(ran) : ran[i] = Exec("Ping", FALSE)
          IN /\ pingFailed => (Made(ran, "Close") <=> args[1].t = "string")
             /\ Made(ran, "Close") =>
                    /\ pingFailed
                    /\ Made(ran, "sql.Open")
                    /\ ran[Len(ran)].call = "Close"
             /\ (Len(args) > 0 /\ args[1].t # "string") => ~Made(ran, "Close")]_vars

\* Open was given a driver name and a source string, the driver opened the
\* connection and the ping failed: the connection was closed and the error
\* returned with the session
C36_Witness ==
    /\ lastCall.op = "Open"
    /\ lastCall.arg = ListV(<<StrV("mysql"), StrV("dsn")>>)
    /\ lastCall.ran = <<Exec("sql.Open", TRUE), Exec("Ping", FALSE), Exec("Close", TRUE)>>
    /\ lastCall.result = EPing
    /\ RootId \in DOMAIN sessions

\* --------------------------------------------- Model extras (SpecExtra)
MaxExtraValue == 3

ExtraKeys == <<"a", "b">>
ExtraValues == 1..MaxExtraValue

\* map[string]interface{}: nil, or the entries of a map
MakeMap(m) == [isNil |-> FALSE, m |-> m]
ExtraMaps ==
    {MakeMap(m) : m \in UNION {[ks -> ExtraValues] : ks \in SUBSET {"a", "b"}}}

\* the members of a JSON object, keys in sorted order
RECURSIVE Members(_, _)
Members(m, keys) ==
    IF keys = <<>> THEN ""
    ELSE LET k == Head(keys)
             rest == Members(m, Tail(keys))
         IN IF k \notin DOMAIN m THEN rest
            ELSE "\"" \o k \o "\":" \o ToString(m[k])
                 \o (IF rest = "" THEN "" ELSE "," \o rest)

\* json.Marshal of a map: a nil map encodes as null
Marshal(p) == IF p.isNil THEN "null" ELSE "{" \o Members(p.m, ExtraKeys) \o "}"

\* json.Unmarshal(text, &into): null sets the map to nil, an object adds its
\* members to the map
Unmarshal(text, into) ==
    IF text = "null" THEN NilMap
    ELSE LET obj == CHOOSE p \in ExtraMaps : Marshal(p) = text
         IN MakeMap(obj.m @@ into.m)

\* m.SetExtra(p)
SetExtra(m, p) == [Extra |-> p, ExtraJson |-> Marshal(p)]

\* m.GetExtra(): the model afterwards and the map returned
GetExtra(m) ==
    IF m.Extra.isNil
    THEN LET made == MakeMap(NilMap.m)
             e == IF m.ExtraJson # "" THEN Unmarshal(m.ExtraJson, made) ELSE made
         IN [m |-> [m EXCEPT !.Extra = e], out |-> e]
    ELSE [m |-> m, out |-> m.Extra]

\* m.AddExtra(key, value): the store into a nil map panics
AddExtra(m, key, value) ==
    LET g == GetExtra(m)
    IN IF g.out.isNil THEN [m |-> g.m, panics |-> TRUE]
       ELSE [m |-> SetExtra(g.m, MakeMap((key :> value) @@ g.out.m)),
             panics |-> FALSE]

EPanic == Single("panic: assignment to entry in nil map")

\* a Model as declared, or one scanned from a row whose column holds an
\* encoded map
InitExtra ==
    /\ sessions = (RootId :> OpenSession)
    /\ arrays = [x \in {} |-> <<>>]
    /\ searches = <<>>
    /\ txs = <<>>
    /\ proc = IdleProc
    /\ log = <<>>
    /\ added = (RootId :> <<>>)
    /\ modelStructsMap = NoModelStructs
    /\ handles = <<>>
    /\ setterCalls = 0
    /\ pending = NoPending
    /\ model \in {ZeroModel} \cup {[Extra |-> NilMap, ExtraJson |-> Marshal(p)] : p \in ExtraMaps}
    /\ lastCall = NoCall

MxSetExtra ==
    \E p \in ExtraMaps \cup {NilMap} :
        /\ model' = SetExtra(model, p)
        /\ lastCall' = [NoCall EXCEPT !.op = "SetExtra", !.arg = p]
        /\ UNCHANGED <<sessions, arrays, searches, txs, proc, log, added,
                       modelStructsMap, handles, setterCalls, pending>>
MxGetExtra ==
    /\ model' = GetExtra(model).m
    /\ lastCall' = [NoCall EXCEPT !.op = "GetExtra", !.out = GetExtra(model).out]
    /\ UNCHANGED <<sessions, arrays, searches, txs, proc, log, added,
                   modelStructsMap, handles, setterCalls, pending>>
MxAddExtra ==
    \E i \in 1..Len(ExtraKeys), value \in ExtraValues :
        /\ model' = AddExtra(model, ExtraKeys[i], value).m
        /\ lastCall' = [NoCall EXCEPT
                            !.op = "AddExtra",
                            !.arg = [key |-> ExtraKeys[i], value |-> value],
                            !.out = GetExtra(model).out,
                            !.result = IF AddExtra(model, ExtraKeys[i], value).panics
                                       THEN EPanic ELSE NoError]
        /\ UNCHANGED <<sessions, arrays, searches, txs, proc, log, added,
                       modelStructsMap, handles, setterCalls, pending>>

NextExtra == MxSetExtra \/ MxGetExtra \/ MxAddExtra

SpecExtra == InitExtra /\ [][NextExtra]_vars

\* C37 (as claimed): after every SetExtra and AddExtra call ExtraJson is the
\* JSON encoding of Extra; AddExtra(k, v) succeeds, makes GetExtra()[k] = v
\* and keeps every other key; and GetExtra always returns a non-nil map,
\* also after SetExtra(nil).
C37_ExtrasStayInSync ==
    [][/\ lastCall'.op \in {"SetExtra", "AddExtra"} =>
            model'.ExtraJson = Marshal(model'.Extra)
       /\ lastCall'.op = "AddExtra" =>
            LET k == lastCall'.arg.key
                before == lastCall'.out
                after == GetExtra(model').out
            IN /\ IsNilErr(lastCall'.result)
               /\ k \in DOMAIN after.m /\ after.m[k] = lastCall'.arg.value
               /\ \A j \in DOMAIN before.m \ {k} :
                      j \in DOMAIN after.m /\ after.m[j] = before.m[j]
       /\ ~GetExtra(model').out.isNil]_vars

\* ------------------------------------------------- fetches (SpecFetch)
MaxFetchSessions == 6

FetchOps == {"First", "Take", "Last", "Find", "Delete"}

\* a run builds sessions by chain calls and then makes one fetch or delete
FetchRoom ==
    /\ Cardinality(DOMAIN sessions) < MaxFetchSessions
    /\ \A s \in DOMAIN sessions \ {RootId} : LastCallOf(s).op \notin FetchOps

\* no inline condition, or one with its argument
Inline == {<<>>, <<QB, IntV(2)>>}

FtWhere == \E r \in DOMAIN sessions : FetchRoom /\ RepoWhere(r, QA, ArgsA)
FtLimit == \E r \in DOMAIN sessions : FetchRoom /\ RepoLimit(r, IntV(5))
FtFirst ==
    \E r \in DOMAIN sessions, where \in Inline, outcome \in Outcomes :
        FetchRoom /\ RepoFirst(r, UserBlank, where, outcome)
FtTake ==
    \E r \in DOMAIN sessions, where \in Inline, outcome \in Outcomes :
        FetchRoom /\ RepoTake(r, UserBlank, where, outcome)
FtLast ==
    \E r \in DOMAIN sessions, where \in Inline, outcome \in Outcomes :
        FetchRoom /\ RepoLast(r, UserBlank, where, outcome)
FtFind ==
    \E r \in DOMAIN sessions, where \in Inline, outcome \in Outcomes :
        FetchRoom /\ RepoFindWhere(r, UserSlice, where, outcome)
FtDelete ==
    \E r \in DOMAIN sessions, where \in Inline, outcome \in Outcomes :
        FetchRoom /\ RepoDelete(r, UserSaved, where, outcome)

NextFetch == FtWhere \/ FtLimit \/ FtFirst \/ FtTake \/ FtLast \/ FtFind \/ FtDelete

SpecFetch == Init /\ [][NextFetch]_vars

\* the step is a call of one of `ops`
Called(ops) == lastCall'.op \in ops /\ lastCall' # lastCall

\* C28: First, Take and Last run the query pipeline on a scope whose limit
\* is 1 whatever limit the receiver holds, and leave the receiver as it
\* was; First asks for primary-key ordering ascending, Last descending,
\* Take for none; Find runs the query pipeline with the receiver's limit.
C28_FetchOneForcesLimit ==
    [][Called({"First", "Take", "Last", "Find"}) =>
          LET r == lastCall'.recv
              p == lastCall'.pipes[1]
          IN /\ Len(lastCall'.pipes) = 1 /\ p.kind = "queries"
             /\ sessions'[r] = sessions[r]
             /\ lastCall'.op \in {"First", "Take", "Last"} => p.limit = IntV(1)
             /\ lastCall'.op = "First" => p.order = [value |-> StrV("ASC"), ok |-> TRUE]
             /\ lastCall'.op = "Last" => p.order = [value |-> StrV("DESC"), ok |-> TRUE]
             /\ lastCall'.op = "Take" => ~p.order.ok
             /\ lastCall'.op = "Find" =>
                    p.limit = IF sessions[r].searchIsNil THEN IntV(-1)
                              ELSE sessions[r].search.limit]_vars

\* Last was called on a session limited to 5: its query ran with limit 1
\* and descending order, and the session is still limited to 5
C28_Witness ==
    /\ lastCall.op = "Last"
    /\ sessions[lastCall.recv].search.limit = IntV(5)
    /\ lastCall.pipes[1].limit = IntV(1)
    /\ lastCall.pipes[1].order.value = StrV("DESC")

\* C29 (as claimed): the inline conditions of First, Take, Last, Find and
\* Delete are in the scope's Search, after the receiver's own conditions,
\* when the pipeline starts, and in that scope only: the conditions every
\* session observes, the receiver included, are what they were.
C29_InlineOnlyInScope ==
    [][(Called(FetchOps) /\ Len(lastCall'.out.a) > 0) =>
          LET r == lastCall'.recv
              where == lastCall'.out.a
          IN /\ lastCall'.pipes[1].where =
                    Append(View(r).search.whereConditions, Cond(where[1], Tail(where)))
             /\ \A s \in DOMAIN sessions :
                    ViewIn(sessions', arrays', s).search = View(s).search]_vars

\* ------------------------------------------- FirstOrCreate and Save
\* r.New() for the session record r
NewOf(r, id) ==
    [Clone(r, id) EXCEPT !.searchIsNil = TRUE, !.value = NilV, !.search = ZeroSearch]

\* the assign attributes of a Search, as handed to the update pipeline
AssignAttrs(search, arrs) ==
    ListV([i \in 1..search.assignAttrs.len |-> Elems(search.assignAttrs, arrs)[i].query])

\* what a write call records when it ends: the session it returns joins
\* the heap
WriteReturns(op, r, arg, where, db, pipes, ran) ==
    /\ sessions' = (NewId(r, op, arg, where) :> db) @@ sessions
    /\ lastCall' = [NoCall EXCEPT !.op = op, !.recv = r, !.arg = arg,
                                  !.out = ListV(where), !.pipes = pipes,
                                  !.result = db.err, !.ran = ran]
    /\ pending' = NoPending

\* a write call that reads the chains of a parent without registry panics
\* and returns nothing; the pipelines it ran before stay run
WritePanics(op, r, arg, pipes, ran) ==
    /\ lastCall' = [NoCall EXCEPT !.op = op, !.recv = r, !.arg = arg,
                                  !.out = StrV("panic"), !.pipes = pipes,
                                  !.ran = ran]
    /\ pending' = NoPending
    /\ UNCHANGED sessions

\* (mutant) FirstOrCreate that creates after any failed lookup
FirstOrCreateNextAnyError(c, result) ==
    IF ~IsNilErr(result.err) THEN "creates"
    ELSE IF c.search.assignAttrs.len > 0 THEN "updates"
    ELSE "c"

\* FirstOrCreate once First has returned result: it returns the result of
\* a lookup that failed otherwise than by not-found, goes on to the create
\* pipeline after not-found, to the update pipeline when the clone c holds
\* Assign attributes, and returns c otherwise
FirstOrCreateNext(c, result) ==
    IF ~IsNilErr(result.err)
    THEN IF ~RecordNotFound(result) THEN "result" ELSE "creates"
    ELSE IF c.search.assignAttrs.len > 0 THEN "updates"
    ELSE "c"

\* (mutant) Save that falls back whenever the update affected no row
SaveNextOnNoRow(newDB) ==
    IF newDB.rowsAffected = 0 THEN "fallback" ELSE "newDB"

\* Save once the update pipeline has returned newDB
SaveNext(newDB) ==
    IF IsNilErr(newDB.err) /\ newDB.rowsAffected = 0 THEN "fallback" ELSE "newDB"

\* FirstOrCreate(out, where...) on the session record r, up to its second
\* pipeline: c := r.Clone(), then r.First(out, where...) with the answer
\* `outcome` of the executor, then the choice of what follows.  `done` are
\* the pipelines the call op of session recv has run before.
FirstOrCreateLookup(op, recv, r, out, where, outcome, done) ==
    \E id \in {NewId(recv, op, out, where)} :
    \E c \in {Clone(r, id)} :
    \E first \in {FirstRes(r, id, out, where, outcome, arrays)} :
    \E ran \in {sessions[r.parent].callbacks.queries} :
        /\ arrays' = first.a
        /\ IF sessions[r.parent].callbacks.isNil
           THEN /\ WritePanics(op, recv, out, done, <<>>)
                /\ UNCHANGED <<log, modelStructsMap>>
           ELSE /\ log' = log \o first.emit
                /\ modelStructsMap' = GetModelStruct(modelStructsMap, out,
                                          sessions[r.parent].singularTable).cache
                /\ \E next \in {FirstOrCreateNext(c, first.db)} :
                       CASE next = "result" ->
                                WriteReturns(op, recv, out, where, first.db,
                                             done \o first.pipes, ran)
                         [] next = "c" ->
                                WriteReturns(op, recv, out, where, c,
                                             done \o first.pipes, ran)
                         [] OTHER ->
                                /\ pending' = [pc |-> next, op |-> op, recv |-> recv,
                                               c |-> c, arg |-> out, where |-> where,
                                               pipes |-> done \o first.pipes,
                                               ran |-> ran]
                                /\ UNCHANGED <<sessions, lastCall>>
        /\ UNCHANGED <<searches, txs, proc, added, handles, model, setterCalls>>

\* r.FirstOrCreate(out, where...) is called: the lookup
RepoFirstOrCreate(r, out, where, outcome) ==
    /\ pending.pc = "idle"
    /\ NewId(r, "FirstOrCreate", out, where) \notin DOMAIN sessions
    /\ FirstOrCreateLookup("FirstOrCreate", r, sessions[r], out, where, outcome, <<>>)

\* the second pipeline of FirstOrCreate, on a scope of the clone c taken
\* when the call started: the chain is read from the registry c's parent
\* holds by now, once the scope is built (the create pipeline folds the
\* inline conditions in again; the update pipeline is handed the Assign
\* attributes as they are in the backing array by now)
FirstOrCreateWrite(outcome) ==
    \E p \in {pending} :
    \E id \in {NewId(p.recv, p.op, p.arg, p.where)} :
    \E run \in {IF p.pc = "creates"
                THEN RunScope(NewScope(p.c, id, p.arg), p.where, "creates", outcome,
                              arrays, ArrId(id, "inline2"))
                ELSE RunScope(ScopeInstanceSet(NewScope(p.c, id, p.arg),
                                               "gorm:update_interface",
                                               AssignAttrs(p.c.search, arrays)),
                              <<>>, "updates", outcome, arrays, ArrId(id, "inline2"))} :
        /\ p.pc \in {"creates", "updates"}
        /\ arrays' = run.a
        /\ IF sessions[p.c.parent].callbacks.isNil
           THEN /\ WritePanics(p.op, p.recv, p.arg, p.pipes, p.ran)
                /\ UNCHANGED <<log, modelStructsMap>>
           ELSE /\ log' = log \o run.emit
                /\ modelStructsMap' = GetModelStruct(modelStructsMap, p.arg,
                                          sessions[p.c.parent].singularTable).cache
                /\ WriteReturns(p.op, p.recv, p.arg, p.where, run.db,
                                p.pipes \o run.pipes, p.ran)
        /\ UNCHANGED <<searches, txs, proc, added, handles, model, setterCalls>>

\* r.Save(value) is called: the create pipeline for a blank primary key,
\* the update pipeline otherwise, on a scope of r as it is now
RepoSave(r, value, outcome) ==
    \E id \in {NewId(r, "Save", value, <<>>)} :
    \E scope \in {NewScope(sessions[r], id, value)} :
    \E kind \in {IF PrimaryKeyZero(scope.Value) THEN "creates" ELSE "updates"} :
    \E run \in {RunScope(scope, <<>>, kind, outcome, arrays, ArrId(id, "inline"))} :
        /\ pending.pc = "idle"
        /\ id \notin DOMAIN sessions
        /\ arrays' = run.a
        /\ IF sessions[sessions[r].parent].callbacks.isNil
           THEN /\ WritePanics("Save", r, value, <<>>, <<>>)
                /\ UNCHANGED <<log, modelStructsMap>>
           ELSE /\ log' = log \o run.emit
                /\ modelStructsMap' = GetModelStruct(modelStructsMap, value,
                                          sessions[sessions[r].parent].singularTable).cache
                /\ IF kind = "updates" /\ SaveNext(run.db) = "fallback"
                   THEN /\ pending' = [pc |-> "fallback", op |-> "Save", recv |-> r,
                                       c |-> OpenSession, arg |-> value, where |-> <<>>,
                                       pipes |-> run.pipes, ran |-> <<>>]
                        /\ UNCHANGED <<sessions, lastCall>>
                   ELSE WriteReturns("Save", r, value, <<>>, run.db, run.pipes, <<>>)
        /\ UNCHANGED <<searches, txs, proc, added, handles, model, setterCalls>>

\* the fallback of Save once the update has returned: r.New() of the
\* receiver as it is by now, and FirstOrCreate(value) on it
SaveFallback(outcome) ==
    /\ pending.pc = "fallback"
    /\ FirstOrCreateLookup("Save", pending.recv,
                           NewOf(sessions[pending.recv],
                                 NewId(pending.recv, "Save", pending.arg, <<>>)),
                           pending.arg, <<>>, outcome, pending.pipes)

\* ---------------------------------------------------- writes (SpecWrite)
MaxWriteSessions == 4

WriteOps == {"FirstOrCreate", "Save"}

\* a run builds sessions by chain calls and makes one write; chain calls and
\* AddError go on while the write is between two pipelines
WriteRoom ==
    /\ Cardinality(DOMAIN sessions) < MaxWriteSessions
    /\ lastCall.op \notin WriteOps

WrWhere == \E r \in DOMAIN sessions : WriteRoom /\ RepoWhere(r, QA, ArgsA)
WrAssign == \E r \in DOMAIN sessions : WriteRoom /\ RepoAssign(r, StrV("Name: x"))
\* an error is stored on a session that has no descendants yet
WrAddError ==
    \E r \in DOMAIN sessions, e \in {E1, ErrRecordNotFound} :
        /\ WriteRoom /\ Children(r) = {}
        /\ ~InSeq(e.errs[1], GetErrors(sessions[r]))
        /\ RepoAddError(r, e)
WrFirstOrCreate ==
    \E r \in DOMAIN sessions, where \in Inline, outcome \in Outcomes :
        WriteRoom /\ RepoFirstOrCreate(r, UserBlank, where, outcome)
WrSave ==
    \E r \in DOMAIN sessions, value \in {UserBlank, UserSaved}, outcome \in Outcomes :
        WriteRoom /\ RepoSave(r, value, outcome)
\* the call in flight goes on with the next answer of the executor
WrSaveFallback ==
    \E outcome \in Outcomes : pending.op = "Save" /\ SaveFallback(outcome)
WrFirstOrCreateWrite ==
    \E outcome \in Outcomes : pending.op \in WriteOps /\ FirstOrCreateWrite(outcome)

NextWrite ==
    \/ WrWhere \/ WrAssign \/ WrAddError \/ WrFirstOrCreate \/ WrSave
    \/ WrSaveFallback \/ WrFirstOrCreateWrite

SpecWrite == Init /\ [][NextWrite]_vars

\* the kinds of the pipelines run, in order
Kinds(pipes) == [i \in 1..Len(pipes) |-> pipes[i].kind]

\* the error reports not-found
NotFound(err) == RecordNotFound([err |-> err])

\* C26: Save(value) runs the create pipeline and nothing else when the
\* primary key is blank.  Otherwise it runs the update pipeline first and
\* goes on to FirstOrCreate on a fresh session (one that carries none of
\* the receiver's conditions) exactly when the update left no error and
\* affected no row; in any other case it returns the update's session and
\* runs nothing more.
C26_SaveCreatesOrUpdates ==
    [][Called({"Save"}) =>
          LET r == lastCall'.recv
              value == lastCall'.arg
              p == lastCall'.pipes
              new == sessions'[NewId(r, "Save", value, <<>>)]
          IN IF PrimaryKeyZero(value)
             THEN Kinds(p) = <<"creates">>
             ELSE /\ p[1].kind = "updates"
                  /\ Len(p) > 1 <=> (IsNilErr(p[1].err) /\ p[1].rowsAffected = 0)
                  /\ Len(p) > 1 =>
                        /\ p[2].kind = "queries" /\ p[2].where = <<>>
                        /\ p[2].value = value
                  /\ Len(p) = 1 =>
                        /\ new.err = p[1].err
                        /\ new.rowsAffected = p[1].rowsAffected]_vars

\* a saved record was saved on a session with a condition: the update
\* affected no row, the lookup of the fallback, which ran without that
\* condition, found nothing, and the record was created
C26_Witness ==
    /\ lastCall.op = "Save" /\ lastCall.arg = UserSaved
    /\ Len(View(lastCall.recv).search.whereConditions) > 0
    /\ Kinds(lastCall.pipes) = <<"updates", "queries", "creates">>
    /\ IsNilErr(lastCall.result)

\* C27: FirstOrCreate runs the create pipeline exactly when its First
\* lookup reported not-found, and the update pipeline exactly when the
\* lookup left no error and the session holds at least one Assign
\* attribute; when the lookup left an error that is not not-found, the
\* result of the lookup is returned and neither pipeline runs.
C27_FirstOrCreateBranches ==
    [][Called({"FirstOrCreate"}) =>
          LET r == lastCall'.recv
              p == lastCall'.pipes
              lookup == p[1]
              new == sessions'[NewId(r, "FirstOrCreate", lastCall'.arg, lastCall'.out.a)]
              ran == {p[i].kind : i \in 2..Len(p)}
          IN /\ lookup.kind = "queries" /\ lookup.limit = IntV(1)
             /\ "creates" \in ran <=> NotFound(lookup.err)
             /\ "updates" \in ran <=>
                    (IsNilErr(lookup.err) /\ Len(View(r).search.assignAttrs) > 0)
             /\ (~IsNilErr(lookup.err) /\ ~NotFound(lookup.err)) =>
                    /\ Len(p) = 1 /\ new.err = lookup.err
                    /\ new.value = lookup.value]_vars

\* the lookup found the record on a session with an Assign attribute, and
\* the update pipeline ran on a scope that held the attribute in its
\* instance-local settings; the session returned does not hold it
C27_Witness ==
    /\ lastCall.op = "FirstOrCreate"
    /\ Len(View(lastCall.recv).search.assignAttrs) > 0
    /\ Kinds(lastCall.pipes) = <<"queries", "updates">>
    /\ lastCall.pipes[2].rowsAffected = 1
    /\ lastCall.pipes[2].update = ListV(<<StrV("Name: x")>>)
    /\ \E s \in DOMAIN sessions :
           /\ s # RootId /\ LastCallOf(s).op = "FirstOrCreate"
           /\ "gorm:update_interface" \notin DOMAIN sessions[s].values

\* ------------------------------ the back-pointer of a Search (SpecBack)
MaxBackSessions == 3
MaxBackLog == 1

\* r.Search().getInterfaceAsSQL(value), called inside the package: a value
\* that is neither a string nor a number records the invalid-SQL error on
\* the session the Search points back at
RepoGetInterfaceAsSQL(r, value) ==
    LET res == getInterfaceAsSQL(value)
        target == sessions[r].search.db
        ae == AddError(sessions[target], ErrInvalidSQL)
    IN /\ ~sessions[r].searchIsNil
       /\ target \in DOMAIN sessions
       /\ sessions' = IF res.invalid THEN [sessions EXCEPT ![target] = ae.r]
                      ELSE sessions
       /\ log' = IF res.invalid THEN log \o ae.emit ELSE log
       /\ lastCall' = [NoCall EXCEPT !.op = "getInterfaceAsSQL", !.recv = r,
                                     !.arg = value, !.out = StrV(res.str),
                                     !.result = IF res.invalid THEN ErrInvalidSQL
                                                ELSE NoError]
       /\ UNCHANGED <<arrays, searches, txs, proc, added, modelStructsMap, handles, model, setterCalls, pending>>

BackRoom == Cardinality(DOMAIN sessions) < MaxBackSessions

BpWhere == \E r \in DOMAIN sessions : BackRoom /\ RepoWhere(r, QA, ArgsA)
BpGroup ==
    \E r \in DOMAIN sessions, q \in {"name", "bad;drop"} :
        BackRoom /\ RepoGroup(r, q)
BpModel == \E r \in DOMAIN sessions : BackRoom /\ RepoModel(r, StrV("&user"))
BpNew == \E r \in DOMAIN sessions : BackRoom /\ RepoNew(r)
BpFirst ==
    \E r \in DOMAIN sessions, outcome \in Outcomes :
        BackRoom /\ RepoFirst(r, UserBlank, <<>>, outcome)
BpGetInterfaceAsSQL ==
    \E r \in DOMAIN sessions, value \in {StrV("name"), IntV(3), BoolV(TRUE)} :
        /\ Len(log) < MaxBackLog
        /\ RepoGetInterfaceAsSQL(r, value)

NextBack == BpWhere \/ BpGroup \/ BpModel \/ BpNew \/ BpFirst \/ BpGetInterfaceAsSQL

SpecBack == Init /\ [][NextBack]_vars

\* C38: every session returned by Clone or by a chain call (all sessions
\* but the root and the ones New returned) has a Search, and that Search
\* points back at the session itself; the Search of a scope built by
\* NewScope points at the scope's own clone; and an error raised by a
\* Search setter is recorded on the session that owns the Search and on no
\* other.
C38_BackPointer ==
    [][/\ \A s \in DOMAIN sessions' \ {RootId} :
            LastCallOf(s).op # "New" =>
                /\ ~sessions'[s].searchIsNil
                /\ sessions'[s].search.db = s
       /\ \A r \in DOMAIN sessions' :
            LET id == NewId(r, "NewScope", UserBlank, <<>>)
                scope == NewScope(sessions'[r], id, UserBlank)
            IN /\ scope.Search.db = id
               /\ scope.db.search.db = id
               /\ ~scope.db.searchIsNil
       /\ (lastCall'.op = "getInterfaceAsSQL" /\ DOMAIN sessions' = DOMAIN sessions) =>
            LET r == lastCall'.recv
            IN /\ \A s \in DOMAIN sessions \ {r} : sessions'[s] = sessions[s]
               /\ ~IsNilErr(lastCall'.result) =>
                      InSeq(ErrInvalidSQL.errs[1], GetErrors(sessions'[r]))]_vars

\* the Search of a session two chain calls away from the root was handed a
\* value that is no SQL text: that session holds the invalid-SQL error and
\* the session it was cloned from holds none
C38_Witness ==
    /\ lastCall.op = "getInterfaceAsSQL"
    /\ lastCall.arg = BoolV(TRUE)
    /\ Len(lastCall.recv) = 2
    /\ LastCallOf(lastCall.recv).op = "Where"
    /\ sessions[lastCall.recv].err = ErrInvalidSQL
    /\ IsNilErr(sessions[Receiver(lastCall.recv)].err)
====
